---- MODULE Spec2Model ----
(***************************************************************************)
(* A model of the terminator-dancer integrated runtime: the account store, *)
(* the per-transaction execution context, the instruction dispatcher and   *)
(* the System Program handlers.                                            *)
(*                                                                         *)
(* Representation.                                                         *)
(*  - A Pubkey [b; 32] is represented by its repeated byte b.              *)
(*  - lamports are u64 in the source; the model keeps the arithmetic but   *)
(*    at a width of LamportBits bits, so that the wrap-around of `+=` is   *)
(*    within reach.  The balance of the default test account is scaled to  *)
(*    that width.  Compute units keep their real values.                   *)
(*  - account data is a byte vector that the code only ever builds as      *)
(*    vec![0u8; n] or vec![]; it is represented by its length n.           *)
(*  - instruction data is a sequence of words: the borsh variant byte      *)
(*    followed by one word per fixed-width field (u64, [u8;32]) or String. *)
(*  - the loop of execute_solana_transaction_parsed is one action per      *)
(*    iteration; iteration i reads only instruction i, so the instruction  *)
(*    is drawn when its iteration runs.                                    *)
(***************************************************************************)
EXTENDS Integers, Sequences, FiniteSets, TLC

\* ---------------------------------------------------------------- bounds
LamportBits == 3      \* width of a lamport counter in the model
MaxInstr == 2         \* instructions per transaction
MaxOps == 2           \* fund calls plus instructions over one run
MaxClock == 2         \* distinct readings of the system clock

U64 == 2 ^ LamportBits          \* lamports are kept modulo U64

\* ---------------------------------------------------------------- keys
SYSTEM_PROGRAM_ID == 0
TEST_ACCOUNT_KEY == 1
OTHER_KEY == 2
DEMO_PROGRAM_ID == 66
Pubkeys == {SYSTEM_PROGRAM_ID, TEST_ACCOUNT_KEY, OTHER_KEY, DEMO_PROGRAM_ID}

TEST_ACCOUNT_LAMPORTS == 5      \* "10 SOL", scaled to the model's width
compute_budget == 1400000

VARIABLES
  accounts,         \* IntegratedRuntime.accounts : HashMap<Pubkey, Account>
  programs,         \* RealBpfVm.programs : HashMap<Pubkey, Vec<u8>>
  overflow_checks,  \* whether the build traps on integer overflow
  pc,               \* "idle", "exec" (inside the instruction loop), "crashed"
  tx,               \* the transaction being executed (or executed last)
  ip,               \* 1-based index of the next instruction of tx
  context,          \* the ExecutionContext of the running transaction
  result,           \* what the last execute call returned
  start,            \* history: the store and cache when the transaction began
  pre,              \* history: store, cache and context before the last instruction
  last,             \* history: the last instruction run and its outcome
  prev,             \* history: last and pre as they were before the last instruction
  ops,              \* fund calls and instructions so far
  firedancer,       \* whether the build has the "firedancer" feature
  twin,             \* a second runtime given the same store, cache and transaction
  wire              \* the last call of the transaction format and its outcome

runtime == <<accounts, programs, overflow_checks, pc, tx, ip, context, result,
             start, pre, last, prev, ops, firedancer, twin>>
vars == <<runtime, wire>>

\* ---------------------------------------------------------------- types.rs
Account_new(lamports, data, owner) ==
  [lamports |-> lamports, data |-> data, owner |-> owner,
   executable |-> FALSE, rent_epoch |-> 0]

Account_new_executable(lamports, data, owner) ==
  [lamports |-> lamports, data |-> data, owner |-> owner,
   executable |-> TRUE, rent_epoch |-> 0]

ExecutionContext_new(budget) ==
  [compute_units_remaining |-> budget, log_messages |-> <<>>]

\* consume_compute_units(n) -> bool: false, and the counter untouched, when
\* fewer than n units remain.
consume_compute_units(ctx, n) ==
  IF ctx.compute_units_remaining >= n
  THEN [ok |-> TRUE,
        context |-> [ctx EXCEPT !.compute_units_remaining = @ - n]]
  ELSE [ok |-> FALSE, context |-> ctx]

log(ctx, msg) == [ctx EXCEPT !.log_messages = Append(@, msg)]

\* ---------------------------------------------------------------- handler outcomes
\* A handler returns Ok(()) or Err(e); an arithmetic trap or an out-of-bounds
\* index unwinds instead ("panic").  The scratch accounts and the context
\* are returned as the handler left them.
HOk(account_infos, ctx) ==
  [status |-> "ok", error |-> "None", account_infos |-> account_infos, context |-> ctx]
HErr(e, account_infos, ctx) ==
  [status |-> "err", error |-> e, account_infos |-> account_infos, context |-> ctx]
HPanic(account_infos, ctx) ==
  [status |-> "panic", error |-> "panic", account_infos |-> account_infos, context |-> ctx]

\* a `+=` on u64: traps when the build checks overflow, wraps otherwise
AddOverflows(a, b) == a + b >= U64
WrappingAdd(a, b) == (a + b) % U64

\* ---------------------------------------------------------------- system_program.rs
\* SystemInstruction::try_from_slice: the borsh variant index is the position
\* of the variant in the enum; the payload must be consumed exactly.
try_from_slice(d) ==
  IF Len(d) = 0 THEN [kind |-> "Invalid"]
  ELSE IF d[1] = 0 /\ Len(d) = 4
    THEN [kind |-> "CreateAccount", lamports |-> d[2], space |-> d[3], owner |-> d[4]]
  ELSE IF d[1] = 1 /\ Len(d) = 2
    THEN [kind |-> "Assign", owner |-> d[2]]
  ELSE IF d[1] = 2 /\ Len(d) = 2
    THEN [kind |-> "Transfer", lamports |-> d[2]]
  ELSE IF d[1] = 3 /\ Len(d) = 6
    THEN [kind |-> "CreateAccountWithSeed", base |-> d[2], seed |-> d[3],
          lamports |-> d[4], space |-> d[5], owner |-> d[6]]
  ELSE IF d[1] = 4 /\ Len(d) = 2
    THEN [kind |-> "Allocate", space |-> d[2]]
  ELSE IF d[1] = 5 /\ Len(d) = 5
    THEN [kind |-> "AllocateWithSeed", base |-> d[2], seed |-> d[3],
          space |-> d[4], owner |-> d[5]]
  ELSE IF d[1] = 6 /\ Len(d) = 4
    THEN [kind |-> "AssignWithSeed", base |-> d[2], seed |-> d[3], owner |-> d[4]]
  ELSE IF d[1] = 7 /\ Len(d) = 4
    THEN [kind |-> "TransferWithSeed", lamports |-> d[2], from_seed |-> d[3],
          from_owner |-> d[4]]
  ELSE [kind |-> "Invalid"]

create_account(account_keys, account_infos, lamports, space, owner, ctx) ==
  IF Len(account_infos) < 2
  THEN HErr("TransactionExecutionFailed: CreateAccount requires 2 accounts",
            account_infos, ctx)
  \* account_keys.get(1).unwrap_or(&account_keys[0]) evaluates
  \* &account_keys[0] eagerly: an empty slice is an out-of-bounds index
  ELSE IF Len(account_keys) = 0 THEN HPanic(account_infos, ctx)
  ELSE LET c1 == log(ctx, "Creating account") IN
    IF account_infos[1].lamports < lamports
    THEN HErr("InsufficientFunds", account_infos, c1)
    ELSE HOk([account_infos EXCEPT
                ![1].lamports = @ - lamports,
                ![2] = [lamports |-> lamports, data |-> space, owner |-> owner,
                        executable |-> FALSE, rent_epoch |-> 0]],
             consume_compute_units(c1, 1000).context)

\* assign_account indexing its first account without looking at the length
assign_account_unchecked(account_infos, owner, ctx) ==
  IF Len(account_infos) = 0 THEN HPanic(account_infos, ctx)
  ELSE LET c1 == log(ctx, "Assigning account to owner") IN
    IF account_infos[1].owner # SYSTEM_PROGRAM_ID
    THEN HErr("TransactionExecutionFailed: Only system-owned accounts can be assigned",
              account_infos, c1)
    ELSE HOk([account_infos EXCEPT ![1].owner = owner],
             consume_compute_units(c1, 500).context)

assign_account(account_infos, owner, ctx) ==
  IF Len(account_infos) = 0
  THEN HErr("TransactionExecutionFailed: Assign requires 1 account",
            account_infos, ctx)
  ELSE LET c1 == log(ctx, "Assigning account to owner") IN
    IF account_infos[1].owner # SYSTEM_PROGRAM_ID
    THEN HErr("TransactionExecutionFailed: Only system-owned accounts can be assigned",
              account_infos, c1)
    ELSE HOk([account_infos EXCEPT ![1].owner = owner],
             consume_compute_units(c1, 500).context)

\* transfer with the funds check made on the recipient's slot
transfer_checks_recipient(account_infos, lamports, ctx) ==
  IF Len(account_infos) < 2
  THEN HErr("TransactionExecutionFailed: Transfer requires 2 accounts",
            account_infos, ctx)
  ELSE LET c1 == log(ctx, "Transferring lamports") IN
    IF account_infos[2].lamports < lamports
    THEN HErr("InsufficientFunds", account_infos, c1)
    ELSE HOk([account_infos EXCEPT
                ![1].lamports = (@ + U64 - lamports) % U64,
                ![2].lamports = WrappingAdd(@, lamports)],
             consume_compute_units(c1, 200).context)

transfer(account_infos, lamports, ctx) ==
  IF Len(account_infos) < 2
  THEN HErr("TransactionExecutionFailed: Transfer requires 2 accounts",
            account_infos, ctx)
  ELSE LET c1 == log(ctx, "Transferring lamports") IN
    IF account_infos[1].lamports < lamports
    THEN HErr("InsufficientFunds", account_infos, c1)
    ELSE LET debited == [account_infos EXCEPT ![1].lamports = @ - lamports] IN
      IF AddOverflows(account_infos[2].lamports, lamports) /\ overflow_checks
      THEN HPanic(debited, c1)
      ELSE HOk([debited EXCEPT ![2].lamports = WrappingAdd(@, lamports)],
               consume_compute_units(c1, 200).context)

create_account_with_seed(account_infos, lamports, space, owner, ctx) ==
  create_account(<<>>, account_infos, lamports, space, owner, ctx)

\* allocate keeping the longer of the old and the new data
allocate_keeps_longer(account_infos, space, ctx) ==
  IF Len(account_infos) = 0
  THEN HErr("TransactionExecutionFailed: Allocate requires 1 account",
            account_infos, ctx)
  ELSE LET c1 == log(ctx, "Allocating bytes") IN
    IF account_infos[1].owner # SYSTEM_PROGRAM_ID
    THEN HErr("TransactionExecutionFailed: Only system-owned accounts can be allocated",
              account_infos, c1)
    ELSE HOk([account_infos EXCEPT ![1].data = IF @ > space THEN @ ELSE space],
             consume_compute_units(c1, space \div 100).context)

allocate(account_infos, space, ctx) ==
  IF Len(account_infos) = 0
  THEN HErr("TransactionExecutionFailed: Allocate requires 1 account",
            account_infos, ctx)
  ELSE LET c1 == log(ctx, "Allocating bytes") IN
    IF account_infos[1].owner # SYSTEM_PROGRAM_ID
    THEN HErr("TransactionExecutionFailed: Only system-owned accounts can be allocated",
              account_infos, c1)
    ELSE HOk([account_infos EXCEPT ![1].data = space],
             consume_compute_units(c1, space \div 100).context)

allocate_with_seed(account_infos, space, ctx) == allocate(account_infos, space, ctx)

assign_with_seed(account_infos, owner, ctx) == assign_account(account_infos, owner, ctx)

transfer_with_seed(account_infos, lamports, ctx) == transfer(account_infos, lamports, ctx)

process_instruction(instruction_data, account_keys, account_infos, ctx) ==
  LET instruction == try_from_slice(instruction_data) IN
  IF instruction.kind = "Invalid"
  THEN HErr("SerializationError: Invalid system instruction", account_infos, ctx)
  ELSE LET c1 == log(ctx, "Processing system instruction") IN
    CASE instruction.kind = "CreateAccount" ->
           create_account(account_keys, account_infos, instruction.lamports,
                          instruction.space, instruction.owner, c1)
      [] instruction.kind = "Assign" ->
           assign_account(account_infos, instruction.owner, c1)
      [] instruction.kind = "Transfer" ->
           transfer(account_infos, instruction.lamports, c1)
      [] instruction.kind = "CreateAccountWithSeed" ->
           create_account_with_seed(account_infos, instruction.lamports,
                                    instruction.space, instruction.owner, c1)
      [] instruction.kind = "Allocate" ->
           allocate(account_infos, instruction.space, c1)
      [] instruction.kind = "AllocateWithSeed" ->
           allocate_with_seed(account_infos, instruction.space, c1)
      [] instruction.kind = "AssignWithSeed" ->
           assign_with_seed(account_infos, instruction.owner, c1)
      [] instruction.kind = "TransferWithSeed" ->
           transfer_with_seed(account_infos, instruction.lamports, c1)

\* ---------------------------------------------------------------- real_bpf_vm.rs
\* Bytecode is represented by its leading bytes.
ELF_MAGIC == <<127, 69, 76, 70>>

create_simple_bpf_program == <<127, 69, 76, 70, 2, 1, 1, 0>>

EmptyMap == [k \in {} |-> 0]

Insert(map, key, value) ==
  [k \in (DOMAIN map) \cup {key} |-> IF k = key THEN value ELSE map[k]]

is_program_loaded(progs, program_id) == program_id \in DOMAIN progs

\* load_program storing the bytecode before it looks at the magic
load_program_inserts_first(progs, program_id, bytecode) ==
  IF Len(bytecode) < 4 \/ SubSeq(bytecode, 1, 4) # ELF_MAGIC
  THEN [ok |-> FALSE, error |-> "ProgramError: Invalid ELF format",
        programs |-> Insert(progs, program_id, bytecode)]
  ELSE [ok |-> TRUE, error |-> "None", programs |-> Insert(progs, program_id, bytecode)]

load_program(progs, program_id, bytecode) ==
  IF Len(bytecode) < 4 \/ SubSeq(bytecode, 1, 4) # ELF_MAGIC
  THEN [ok |-> FALSE, error |-> "ProgramError: Invalid ELF format", programs |-> progs]
  ELSE [ok |-> TRUE, error |-> "None", programs |-> Insert(progs, program_id, bytecode)]

\* execute_program carrying out the "account state changes" it announces: one
\* lamport moves from the first account to the second
execute_program_moves_lamports(progs, program_id, instruction_data, account_infos) ==
  IF program_id \notin DOMAIN progs
  THEN [ok |-> FALSE, error |-> "ProgramError: Program not loaded",
        value |-> 0, account_infos |-> account_infos]
  ELSE [ok |-> TRUE, error |-> "None",
        value |-> Len(instruction_data) * 10,
        account_infos |->
          IF Len(instruction_data) > 0 /\ Len(account_infos) >= 2
             /\ account_infos[1].lamports > 0
          THEN [account_infos EXCEPT ![1].lamports = @ - 1,
                                     ![2].lamports = (@ + 1) % U64]
          ELSE account_infos]

\* Ok(compute_units_used) or Err; the accounts are left as they were passed
execute_program(progs, program_id, instruction_data, account_infos) ==
  IF program_id \notin DOMAIN progs
  THEN [ok |-> FALSE, error |-> "ProgramError: Program not loaded",
        value |-> 0, account_infos |-> account_infos]
  ELSE [ok |-> TRUE, error |-> "None",
        value |-> Len(instruction_data) * 10, account_infos |-> account_infos]

\* ---------------------------------------------------------------- integrated_runtime.rs
initialize_default_accounts ==
  Insert(Insert(EmptyMap, SYSTEM_PROGRAM_ID,
                Account_new_executable(1, 0, SYSTEM_PROGRAM_ID)),
         TEST_ACCOUNT_KEY,
         Account_new(TEST_ACCOUNT_LAMPORTS, 0, SYSTEM_PROGRAM_ID))

get_account(accts, pubkey) ==
  IF pubkey \in DOMAIN accts THEN <<accts[pubkey]>> ELSE <<>>

get_balance(accts, pubkey) ==
  IF pubkey \in DOMAIN accts THEN accts[pubkey].lamports ELSE 0

\* outcome of one instruction: the store, the program cache and the context
\* as the instruction left them
IOut(status, error, accts, progs, ctx) ==
  [status |-> status, error |-> error, accounts |-> accts, programs |-> progs,
   context |-> ctx]

execute_bpf_program(progs, program_id, instruction_data, account_infos, ctx) ==
  LET loaded == is_program_loaded(progs, program_id)
      c1 == IF loaded THEN ctx
            ELSE log(log(ctx, "Program not loaded"),
                     "Loading default program for execution")
      ld == IF loaded THEN [ok |-> TRUE, error |-> "None", programs |-> progs]
            ELSE load_program(progs, program_id, create_simple_bpf_program)
  IN IF ~ld.ok
     THEN [status |-> "err", error |-> ld.error, account_infos |-> account_infos,
           context |-> c1, programs |-> ld.programs]
     ELSE LET c2 == log(log(c1, "REAL BPF execution"), "Instruction data bytes")
              r == execute_program(ld.programs, program_id, instruction_data,
                                   account_infos)
          IN IF ~r.ok
             THEN [status |-> "err", error |-> r.error,
                   account_infos |-> account_infos, context |-> c2,
                   programs |-> ld.programs]
             ELSE [status |-> "ok", error |-> "None",
                   account_infos |-> r.account_infos,
                   context |-> consume_compute_units(
                                 log(c2, "BPF execution completed"), 5000).context,
                   programs |-> ld.programs]

\* the same walk inserting the missing accounts as executable ones
RECURSIVE EnsureAccounts_executable(_, _, _, _)
EnsureAccounts_executable(accts, pubkeys, account_indices, i) ==
  IF i > Len(account_indices) THEN [ok |-> TRUE, accounts |-> accts]
  ELSE IF account_indices[i] >= Len(pubkeys) THEN [ok |-> FALSE, accounts |-> accts]
  ELSE LET pubkey == pubkeys[account_indices[i] + 1] IN
    EnsureAccounts_executable(
      IF pubkey \in DOMAIN accts THEN accts
      ELSE Insert(accts, pubkey, Account_new_executable(0, 0, SYSTEM_PROGRAM_ID)),
      pubkeys, account_indices, i + 1)

\* "Get account references (ensuring accounts exist)": the indices are
\* walked in order; a key not in the store is inserted before the next
\* index is looked at.
RECURSIVE EnsureAccounts(_, _, _, _)
EnsureAccounts(accts, pubkeys, account_indices, i) ==
  IF i > Len(account_indices) THEN [ok |-> TRUE, accounts |-> accts]
  ELSE IF account_indices[i] >= Len(pubkeys) THEN [ok |-> FALSE, accounts |-> accts]
  ELSE LET pubkey == pubkeys[account_indices[i] + 1] IN
    EnsureAccounts(IF pubkey \in DOMAIN accts THEN accts
                   ELSE Insert(accts, pubkey, Account_new(0, 0, SYSTEM_PROGRAM_ID)),
                   pubkeys, account_indices, i + 1)

\* the owned copies the handler works on, one per position of account_indices
CopyOut(accts, pubkeys, account_indices) ==
  [i \in 1..Len(account_indices) |-> accts[pubkeys[account_indices[i] + 1]]]

\* a write-back that stores nothing
WriteBack_dropped(accts, pubkeys, account_indices, account_infos, i) == accts

\* a write-back in which the first position naming a key wins
WriteBack_first_wins(accts, pubkeys, account_indices, account_infos, i) ==
  LET written == {pubkeys[account_indices[j] + 1] : j \in i..Len(account_indices)}
      first(key) == CHOOSE j \in i..Len(account_indices) :
                      /\ pubkeys[account_indices[j] + 1] = key
                      /\ \A h \in i..(j - 1) : pubkeys[account_indices[h] + 1] # key
  IN [key \in (DOMAIN accts) \cup written |->
        IF key \in written THEN account_infos[first(key)] ELSE accts[key]]

\* "Update accounts back to storage", in the order of account_indices
RECURSIVE WriteBack(_, _, _, _, _)
WriteBack(accts, pubkeys, account_indices, account_infos, i) ==
  IF i > Len(account_indices) THEN accts
  ELSE WriteBack(Insert(accts, pubkeys[account_indices[i] + 1], account_infos[i]),
                 pubkeys, account_indices, account_infos, i + 1)

\* execute_instruction restoring the store of the transaction's start when
\* the handler fails
execute_instruction_rollback(accts, progs, program_id, instruction_data, pubkeys, account_indices, ctx) ==
  LET ensured == EnsureAccounts(accts, pubkeys, account_indices, 1) IN
  IF ~ensured.ok
  THEN IOut("err", "TransactionExecutionFailed: Invalid account index",
            start.accounts, progs, ctx)
  ELSE LET account_infos == CopyOut(ensured.accounts, pubkeys, account_indices)
           sys == process_instruction(instruction_data, pubkeys, account_infos, ctx)
           h == IF program_id = SYSTEM_PROGRAM_ID
                THEN [status |-> sys.status, error |-> sys.error,
                      account_infos |-> sys.account_infos,
                      context |-> sys.context, programs |-> progs]
                ELSE execute_bpf_program(progs, program_id, instruction_data,
                                         account_infos, ctx)
       IN IF h.status = "ok"
          THEN IOut("ok", "None",
                    WriteBack(ensured.accounts, pubkeys, account_indices,
                              h.account_infos, 1),
                    h.programs, h.context)
          ELSE IOut(h.status, h.error, start.accounts, h.programs, h.context)

execute_instruction(accts, progs, program_id, instruction_data, pubkeys, account_indices, ctx) ==
  LET ensured == EnsureAccounts(accts, pubkeys, account_indices, 1) IN
  IF ~ensured.ok
  THEN IOut("err", "TransactionExecutionFailed: Invalid account index",
            ensured.accounts, progs, ctx)
  ELSE LET account_infos == CopyOut(ensured.accounts, pubkeys, account_indices)
           sys == process_instruction(instruction_data, pubkeys, account_infos, ctx)
           h == IF program_id = SYSTEM_PROGRAM_ID
                THEN [status |-> sys.status, error |-> sys.error,
                      account_infos |-> sys.account_infos,
                      context |-> sys.context, programs |-> progs]
                ELSE execute_bpf_program(progs, program_id, instruction_data,
                                         account_infos, ctx)
       IN IF h.status = "ok"
          THEN IOut("ok", "None",
                    WriteBack(ensured.accounts, pubkeys, account_indices,
                              h.account_infos, 1),
                    h.programs, h.context)
          ELSE IOut(h.status, h.error, ensured.accounts, h.programs, h.context)

\* the loop iteration with the result of the overhead charge ignored
process_one_unchecked(accts, progs, ctx, account_keys, instruction) ==
  LET charged == consume_compute_units(ctx, 1000) IN
  IF instruction.program_id_index >= Len(account_keys)
  THEN IOut("err", "TransactionExecutionFailed: Invalid program_id_index",
            accts, progs, charged.context)
  ELSE execute_instruction(accts, progs,
                           account_keys[instruction.program_id_index + 1],
                           instruction.data, account_keys, instruction.accounts,
                           charged.context)

\* the loop iteration run on a context created anew for the instruction
process_one_new_context(accts, progs, ctx, account_keys, instruction) ==
  LET charged == consume_compute_units(ExecutionContext_new(compute_budget), 1000) IN
  IF ~charged.ok
  THEN IOut("err", "TransactionExecutionFailed: Compute budget exceeded",
            accts, progs, ctx)
  ELSE IF instruction.program_id_index >= Len(account_keys)
  THEN IOut("err", "TransactionExecutionFailed: Invalid program_id_index",
            accts, progs, charged.context)
  ELSE execute_instruction(accts, progs,
                           account_keys[instruction.program_id_index + 1],
                           instruction.data, account_keys, instruction.accounts,
                           charged.context)

\* one iteration of the loop of execute_solana_transaction_parsed
process_one(accts, progs, ctx, account_keys, instruction) ==
  LET charged == consume_compute_units(ctx, 1000) IN
  IF ~charged.ok
  THEN IOut("err", "TransactionExecutionFailed: Compute budget exceeded",
            accts, progs, ctx)
  ELSE IF instruction.program_id_index >= Len(account_keys)
  THEN IOut("err", "TransactionExecutionFailed: Invalid program_id_index",
            accts, progs, charged.context)
  ELSE execute_instruction(accts, progs,
                           account_keys[instruction.program_id_index + 1],
                           instruction.data, account_keys, instruction.accounts,
                           charged.context)

\* fund_account: entry(pubkey).or_insert_with(default), then lamports += n
fund_account(accts, pubkey, lamports) ==
  LET entered == IF pubkey \in DOMAIN accts THEN accts
                 ELSE Insert(accts, pubkey, Account_new(0, 0, SYSTEM_PROGRAM_ID))
  IN IF AddOverflows(entered[pubkey].lamports, lamports) /\ overflow_checks
     THEN [status |-> "panic", accounts |-> entered]
     ELSE [status |-> "ok",
           accounts |-> [entered EXCEPT ![pubkey].lamports = WrappingAdd(@, lamports)]]

\* ---------------------------------------------------------------- solana_format.rs
\* On the wire a key, a hash and a signature are byte strings, and so is
\* instruction data; a payload is a sequence of bytes.
PUBKEY_BYTES == 32
SIGNATURE_BYTES == 64

Repeat(b, n) == [i \in 1..n |-> b]
Skip(data, offset) == SubSeq(data, offset + 1, Len(data))

\* Pubkey [b; 32] <-> its bytes
KeyBytes(b) == Repeat(b, PUBKEY_BYTES)
KeyOf(bytes) == bytes[1]

\* u64::to_le_bytes, for values below 2^24
to_le_bytes(n) ==
  [i \in 1..8 |-> IF i <= 3 THEN (n \div (256 ^ (i - 1))) % 256 ELSE 0]

CompiledInstruction(program_id_index, account_indices, data) ==
  [program_id_index |-> program_id_index, accounts |-> account_indices, data |-> data]

MessageHeader(req, ro_signed, ro_unsigned) ==
  [num_required_signatures |-> req, num_readonly_signed_accounts |-> ro_signed,
   num_readonly_unsigned_accounts |-> ro_unsigned]

SolanaMessage(header, account_keys, recent_blockhash, instructions) ==
  [header |-> header, account_keys |-> account_keys,
   recent_blockhash |-> recent_blockhash, instructions |-> instructions]

SolanaTransaction(signatures, message) ==
  [signatures |-> signatures, message |-> message]

NoMessage == SolanaMessage(MessageHeader(0, 0, 0), <<>>, <<>>, <<>>)
NoTransaction == SolanaTransaction(<<>>, NoMessage)

\* Result<T>
Ok(value) == [ok |-> TRUE, value |-> value, error |-> "None"]
Err(e, none) == [ok |-> FALSE, value |-> none, error |-> e]

\* F applied to the value of v
Then(v, F(_)) == CHOOSE r \in {F(x) : x \in {v}} : TRUE

\* ---- bincode (fixed-width integers, u64 length prefixes, trailing bytes allowed)
\* a read at 0-based offset `off` yields [ok, value, off]
ReadFail(off) == [ok |-> FALSE, value |-> 0, off |-> off]

ReadU8(data, off) ==
  IF off + 1 > Len(data) THEN ReadFail(off)
  ELSE [ok |-> TRUE, value |-> data[off + 1], off |-> off + 1]

\* a u64 length prefix; a length of 2^24 or more exceeds every payload of the
\* model, and the read of its elements runs into the end of the input
ReadLen(data, off) ==
  IF off + 8 > Len(data) THEN ReadFail(off)
  ELSE IF \E i \in 4..8 : data[off + i] # 0 THEN ReadFail(off)
  ELSE LET n == data[off + 1] + 256 * data[off + 2] + 65536 * data[off + 3] IN
       IF n > Len(data) - (off + 8) THEN ReadFail(off)
       ELSE [ok |-> TRUE, value |-> n, off |-> off + 8]

\* Vec<u8>
ReadVecU8(data, off) ==
  LET l == ReadLen(data, off) IN
  IF ~l.ok THEN ReadFail(off)
  ELSE [ok |-> TRUE, value |-> SubSeq(data, l.off + 1, l.off + l.value),
        off |-> l.off + l.value]

\* [u8; n] under serde_bytes: a byte string whose length must be n
ReadByteArray(data, off, n) ==
  LET v == ReadVecU8(data, off) IN
  IF v.ok /\ Len(v.value) = n THEN v ELSE ReadFail(off)

\* count elements of [u8; n], one after the other: each takes 8 + n bytes
ReadByteArrays(data, off, count, n) ==
  IF \E i \in 1..count : ~ReadByteArray(data, off + (8 + n) * (i - 1), n).ok
  THEN ReadFail(off)
  ELSE [ok |-> TRUE,
        value |-> [i \in 1..count |->
                     ReadByteArray(data, off + (8 + n) * (i - 1), n).value],
        off |-> off + (8 + n) * count]

ReadCompiledInstruction(data, off) ==
  LET p == ReadU8(data, off)
      a == ReadVecU8(data, p.off)
      d == ReadVecU8(data, a.off)
  IN IF ~p.ok \/ ~a.ok \/ ~d.ok THEN ReadFail(off)
     ELSE [ok |-> TRUE, value |-> CompiledInstruction(p.value, a.value, d.value),
           off |-> d.off]

RECURSIVE ReadCompiledInstructions(_, _, _, _)
ReadCompiledInstructions(data, off, count, read) ==
  IF count = 0 THEN [ok |-> TRUE, value |-> read, off |-> off]
  ELSE Then(ReadCompiledInstruction(data, off), LAMBDA c :
         IF ~c.ok THEN ReadFail(off)
         ELSE ReadCompiledInstructions(data, c.off, count - 1, Append(read, c.value)))

\* bincode::deserialize::<SolanaMessage>: the header, the keys, the
\* blockhash, the instructions
ReadMessage(data, off) ==
  IF off + 3 > Len(data) THEN ReadFail(off)
  ELSE
  Then(ReadLen(data, off + 3), LAMBDA nk :
    IF ~nk.ok THEN ReadFail(off)
    ELSE
    Then(ReadByteArrays(data, nk.off, nk.value, PUBKEY_BYTES), LAMBDA keys :
      IF ~keys.ok THEN ReadFail(off)
      ELSE
      Then(ReadByteArray(data, keys.off, PUBKEY_BYTES), LAMBDA hash :
        IF ~hash.ok THEN ReadFail(off)
        ELSE
        Then(ReadLen(data, hash.off), LAMBDA ni :
          IF ~ni.ok THEN ReadFail(off)
          ELSE
          Then(ReadCompiledInstructions(data, ni.off, ni.value, <<>>), LAMBDA ins :
            IF ~ins.ok THEN ReadFail(off)
            ELSE [ok |-> TRUE,
                  value |-> SolanaMessage(
                              MessageHeader(data[off + 1], data[off + 2], data[off + 3]),
                              keys.value, hash.value, ins.value),
                  off |-> ins.off])))))

\* bincode::deserialize::<SolanaTransaction>: the signatures, the message
ReadTransaction(data) ==
  Then(ReadLen(data, 0), LAMBDA ns :
    IF ~ns.ok THEN ReadFail(0)
    ELSE
    Then(ReadByteArrays(data, ns.off, ns.value, SIGNATURE_BYTES), LAMBDA sigs :
      IF ~sigs.ok THEN ReadFail(0)
      ELSE
      Then(ReadMessage(data, sigs.off), LAMBDA m :
        IF ~m.ok THEN ReadFail(0)
        ELSE [ok |-> TRUE, value |-> SolanaTransaction(sigs.value, m.value),
              off |-> m.off])))

\* bincode::serialize
WriteVecU8(bytes) == to_le_bytes(Len(bytes)) \o bytes

\* seqs[lo] \o ... \o seqs[hi]
RECURSIVE Concat(_, _, _)
Concat(seqs, lo, hi) ==
  IF lo > hi THEN <<>>
  ELSE IF lo = hi THEN seqs[lo]
  ELSE Concat(seqs, lo, (lo + hi) \div 2) \o Concat(seqs, (lo + hi) \div 2 + 1, hi)

WriteByteArrays(arrays) ==
  Concat([i \in 1..Len(arrays) |-> WriteVecU8(arrays[i])], 1, Len(arrays))

WriteCompiledInstruction(c) ==
  <<c.program_id_index>> \o WriteVecU8(c.accounts) \o WriteVecU8(c.data)

WriteCompiledInstructions(instructions) ==
  Concat([i \in 1..Len(instructions) |-> WriteCompiledInstruction(instructions[i])],
         1, Len(instructions))

\* message_data: bincode::serialize(message)
message_data(message) ==
  <<message.header.num_required_signatures,
    message.header.num_readonly_signed_accounts,
    message.header.num_readonly_unsigned_accounts>>
  \o to_le_bytes(Len(message.account_keys))
  \o WriteByteArrays(message.account_keys)
  \o WriteVecU8(message.recent_blockhash)
  \o to_le_bytes(Len(message.instructions))
  \o WriteCompiledInstructions(message.instructions)

\* serialize_transaction writing the signature count as a single byte
serialize_transaction_short_count(t) ==
  <<Len(t.signatures) % 256>> \o WriteByteArrays(t.signatures)
  \o message_data(t.message)

\* serialize_transaction: bincode::serialize(tx)
serialize_transaction(t) ==
  to_le_bytes(Len(t.signatures)) \o WriteByteArrays(t.signatures)
  \o message_data(t.message)

\* ---- the manual parsers
SerializationError(msg) == "SerializationError: " \o msg

\* count byte strings of width n laid end to end from 0-based offset
Slices(data, offset, count, n) ==
  [i \in 1..count |-> SubSeq(data, offset + n * (i - 1) + 1, offset + n * i)]

\* the loop over the instructions of parse_message_manual, from instruction i
RECURSIVE ParseInstructionsManual(_, _, _, _, _, _)
ParseInstructionsManual(data, offset, i, num_instructions, num_account_keys, instructions) ==
  IF i >= num_instructions THEN [ok |-> TRUE, value |-> instructions, error |-> "None"]
  ELSE IF offset >= Len(data)
  THEN Err(SerializationError("Missing program_id_index for instruction"), <<>>)
  ELSE LET program_id_index == data[offset + 1] IN
  IF program_id_index >= num_account_keys % 256
  THEN Err(SerializationError("Invalid program_id_index for instruction"), <<>>)
  ELSE IF offset + 1 >= Len(data)
  THEN Err(SerializationError("Missing accounts count for instruction"), <<>>)
  ELSE LET accounts_count == data[offset + 2] IN
  IF accounts_count > 64
  THEN Err(SerializationError("Too many accounts for instruction"), <<>>)
  ELSE IF offset + 2 + accounts_count > Len(data)
  THEN Err(SerializationError("Incomplete accounts for instruction"), <<>>)
  ELSE LET account_indices == SubSeq(data, offset + 3, offset + 2 + accounts_count)
           after_accounts == offset + 2 + accounts_count
       IN
  IF \E k \in 1..Len(account_indices) : account_indices[k] >= num_account_keys % 256
  THEN Err(SerializationError("Invalid account index for instruction"), <<>>)
  ELSE IF after_accounts >= Len(data)
  THEN Err(SerializationError("Missing data length for instruction"), <<>>)
  ELSE LET data_length == data[after_accounts + 1] IN
  IF data_length > 1232
  THEN Err(SerializationError("Instruction data too large"), <<>>)
  ELSE IF after_accounts + 1 + data_length > Len(data)
  THEN Err(SerializationError("Incomplete instruction data for instruction"), <<>>)
  ELSE ParseInstructionsManual(
         data, after_accounts + 1 + data_length, i + 1, num_instructions,
         num_account_keys,
         Append(instructions,
                CompiledInstruction(program_id_index, account_indices,
                                    SubSeq(data, after_accounts + 2,
                                           after_accounts + 1 + data_length))))

parse_message_manual(data) ==
  Then(ReadMessage(data, 0), LAMBDA direct :
  IF direct.ok THEN Ok(direct.value)
  ELSE IF 3 > Len(data)
  THEN Err(SerializationError("Incomplete message header"), NoMessage)
  ELSE LET header == MessageHeader(data[1], data[2], data[3]) IN
  IF \/ header.num_required_signatures > 16
     \/ header.num_readonly_signed_accounts > 16
     \/ header.num_readonly_unsigned_accounts > 16
  THEN Err(SerializationError("Invalid header values"), NoMessage)
  ELSE IF 3 >= Len(data)
  THEN Err(SerializationError("Missing account keys count"), NoMessage)
  ELSE LET num_account_keys == data[4] IN
  IF num_account_keys > 64
  THEN Err(SerializationError("Too many account keys"), NoMessage)
  ELSE IF num_account_keys > 0 /\ 4 + PUBKEY_BYTES * num_account_keys > Len(data)
  THEN Err(SerializationError("Incomplete account key"), NoMessage)
  ELSE LET account_keys == Slices(data, 4, num_account_keys, PUBKEY_BYTES)
           after_keys == 4 + PUBKEY_BYTES * num_account_keys
       IN
  IF after_keys + 32 > Len(data)
  THEN Err(SerializationError("Incomplete recent blockhash"), NoMessage)
  ELSE LET recent_blockhash == SubSeq(data, after_keys + 1, after_keys + 32)
           after_hash == after_keys + 32
       IN
  IF after_hash >= Len(data)
  THEN Err(SerializationError("Missing instructions count"), NoMessage)
  ELSE LET num_instructions == data[after_hash + 1] IN
  IF num_instructions > 64
  THEN Err(SerializationError("Too many instructions"), NoMessage)
  ELSE LET parsed == ParseInstructionsManual(data, after_hash + 1, 0, num_instructions,
                                             num_account_keys, <<>>)
       IN IF ~parsed.ok THEN Err(parsed.error, NoMessage)
          ELSE Ok(SolanaMessage(header, account_keys, recent_blockhash, parsed.value)))

parse_transaction_manual(data) ==
  IF Len(data) = 0
  THEN Err(SerializationError("Empty transaction data"), NoTransaction)
  ELSE LET num_signatures == data[1]
           after_signatures == 1 + SIGNATURE_BYTES * num_signatures
       IN
  IF num_signatures > 0 /\ after_signatures > Len(data)
  THEN Err(SerializationError("Incomplete signature data"), NoTransaction)
  ELSE LET signatures == Slices(data, 1, num_signatures, SIGNATURE_BYTES)
           compact == after_signatures < Len(data) /\ data[after_signatures + 1] >= 128
       IN
  IF compact /\ ~(after_signatures + 1 < Len(data))
  THEN Err(SerializationError("Incomplete compact encoding"), NoTransaction)
  ELSE LET offset == IF compact THEN after_signatures + 2 ELSE after_signatures IN
       Then(Skip(data, offset), LAMBDA rest :
         Then(parse_message_manual(rest), LAMBDA message :
           IF ~message.ok THEN Err(message.error, NoTransaction)
           ELSE Ok(SolanaTransaction(signatures, message.value))))

parse_transaction(data) ==
  Then(ReadTransaction(data), LAMBDA direct :
    IF direct.ok THEN Ok(direct.value) ELSE parse_transaction_manual(data))

\* ---- versioned transactions
V0Message(header, account_keys, recent_blockhash, instructions, address_table_lookups) ==
  [version |-> "V0", header |-> header, account_keys |-> account_keys,
   recent_blockhash |-> recent_blockhash, instructions |-> instructions,
   address_table_lookups |-> address_table_lookups]

Legacy(message) ==
  [version |-> "Legacy", header |-> message.header,
   account_keys |-> message.account_keys,
   recent_blockhash |-> message.recent_blockhash,
   instructions |-> message.instructions]

VersionedTransaction(signatures, message) ==
  [signatures |-> signatures, message |-> message]

NoVersionedTransaction == VersionedTransaction(<<>>, Legacy(NoMessage))

\* Result<(T, usize)>
OkConsumed(value, consumed) ==
  [ok |-> TRUE, value |-> value, consumed |-> consumed, error |-> "None"]
ErrConsumed(e) == [ok |-> FALSE, value |-> <<>>, consumed |-> 0, error |-> e]

parse_compiled_instruction(data) ==
  IF 0 >= Len(data) THEN ErrConsumed(SerializationError("Missing program_id_index"))
  ELSE IF 1 >= Len(data) THEN ErrConsumed(SerializationError("Missing accounts length"))
  ELSE LET num_accounts == data[2] IN
  IF 2 + num_accounts > Len(data)
  THEN ErrConsumed(SerializationError("Invalid accounts data"))
  ELSE LET offset == 2 + num_accounts IN
  IF offset >= Len(data)
  THEN ErrConsumed(SerializationError("Missing instruction data length"))
  ELSE LET data_length == data[offset + 1] IN
  IF offset + 1 + data_length > Len(data)
  THEN ErrConsumed(SerializationError("Invalid instruction data"))
  ELSE OkConsumed(CompiledInstruction(data[1], SubSeq(data, 3, 2 + num_accounts),
                                      SubSeq(data, offset + 2, offset + 1 + data_length)),
                  offset + 1 + data_length)

parse_address_table_lookup(data) ==
  IF PUBKEY_BYTES > Len(data)
  THEN ErrConsumed(SerializationError("Invalid lookup table key"))
  ELSE IF PUBKEY_BYTES >= Len(data)
  THEN ErrConsumed(SerializationError("Missing writable indexes length"))
  ELSE LET num_writable == data[PUBKEY_BYTES + 1]
           after_writable == PUBKEY_BYTES + 1 + num_writable
       IN
  IF after_writable > Len(data)
  THEN ErrConsumed(SerializationError("Invalid writable indexes"))
  ELSE IF after_writable >= Len(data)
  THEN ErrConsumed(SerializationError("Missing readonly indexes length"))
  ELSE LET num_readonly == data[after_writable + 1] IN
  IF after_writable + 1 + num_readonly > Len(data)
  THEN ErrConsumed(SerializationError("Invalid readonly indexes"))
  ELSE OkConsumed([account_key |-> SubSeq(data, 1, PUBKEY_BYTES),
                   writable_indexes |-> SubSeq(data, PUBKEY_BYTES + 2, after_writable),
                   readonly_indexes |-> SubSeq(data, after_writable + 2,
                                               after_writable + 1 + num_readonly)],
                  after_writable + 1 + num_readonly)

\* the loop over the instructions of parse_v0_message
RECURSIVE ParseInstructionsV0(_, _, _, _)
ParseInstructionsV0(data, offset, count, instructions) ==
  IF count = 0 THEN OkConsumed(instructions, offset)
  ELSE LET one == parse_compiled_instruction(Skip(data, offset)) IN
       IF ~one.ok THEN ErrConsumed(one.error)
       ELSE ParseInstructionsV0(data, offset + one.consumed, count - 1,
                                Append(instructions, one.value))

\* the loop over the lookups of parse_v0_message
RECURSIVE ParseLookupsV0(_, _, _, _)
ParseLookupsV0(data, offset, count, lookups) ==
  IF count = 0 THEN OkConsumed(lookups, offset)
  ELSE LET one == parse_address_table_lookup(Skip(data, offset)) IN
       IF ~one.ok THEN ErrConsumed(one.error)
       ELSE ParseLookupsV0(data, offset + one.consumed, count - 1,
                           Append(lookups, one.value))

parse_v0_message(data) ==
  IF 3 > Len(data) THEN Err(SerializationError("Invalid header data"), NoMessage)
  ELSE LET header == MessageHeader(data[1], data[2], data[3]) IN
  IF 3 >= Len(data)
  THEN Err(SerializationError("Missing account keys length"), NoMessage)
  ELSE LET num_account_keys == data[4]
           after_keys == 4 + PUBKEY_BYTES * num_account_keys
       IN
  IF num_account_keys > 0 /\ after_keys > Len(data)
  THEN Err(SerializationError("Invalid account key data"), NoMessage)
  ELSE IF after_keys + 32 > Len(data)
  THEN Err(SerializationError("Invalid blockhash data"), NoMessage)
  ELSE LET after_hash == after_keys + 32 IN
  IF after_hash >= Len(data)
  THEN Err(SerializationError("Missing instructions length"), NoMessage)
  ELSE LET instructions == ParseInstructionsV0(data, after_hash + 1,
                                               data[after_hash + 1], <<>>)
       IN
  IF ~instructions.ok THEN Err(instructions.error, NoMessage)
  ELSE LET offset == instructions.consumed
           lookups == IF offset < Len(data)
                      THEN ParseLookupsV0(data, offset + 1, data[offset + 1], <<>>)
                      ELSE OkConsumed(<<>>, offset)
       IN
  IF ~lookups.ok THEN Err(lookups.error, NoMessage)
  ELSE Ok(V0Message(header, Slices(data, 4, num_account_keys, PUBKEY_BYTES),
                    SubSeq(data, after_keys + 1, after_keys + 32),
                    instructions.value, lookups.value))

parse_v0_transaction(data) ==
  LET num_signatures == data[1] % 128
      after_signatures == 1 + SIGNATURE_BYTES * num_signatures
  IN IF num_signatures > 0 /\ after_signatures > Len(data)
     THEN Err(SerializationError("Invalid signature data"), NoVersionedTransaction)
     ELSE Then(Skip(data, after_signatures), LAMBDA rest :
            Then(parse_v0_message(rest), LAMBDA v0_message :
              IF ~v0_message.ok THEN Err(v0_message.error, NoVersionedTransaction)
              ELSE Ok(VersionedTransaction(
                        Slices(data, 1, num_signatures, SIGNATURE_BYTES),
                        v0_message.value))))

parse_legacy_versioned_transaction(data) ==
  Then(ReadTransaction(data), LAMBDA legacy_tx :
    IF ~legacy_tx.ok
    THEN Err(SerializationError("Failed to parse legacy transaction"),
             NoVersionedTransaction)
    ELSE Ok(VersionedTransaction(legacy_tx.value.signatures,
                                 Legacy(legacy_tx.value.message))))

parse_versioned_transaction(data) ==
  IF Len(data) = 0
  THEN Err(SerializationError("Empty transaction data"), NoVersionedTransaction)
  ELSE IF data[1] >= 128 THEN parse_v0_transaction(data)
  ELSE parse_legacy_versioned_transaction(data)

is_v0_transaction(data) == Len(data) # 0 /\ data[1] >= 128

\* ---- lookup-table resolution
\* SHA-256 of the nanoseconds read from the clock, as 32 bytes: the digest
\* is a function of the reading alone, and different readings of the model
\* give different digests
Sha256(nanos) == [i \in 1..PUBKEY_BYTES |-> (nanos * 97 + i * 13) % 256]

\* SolanaPubkey::new_unique(), `now` being what SystemTime::now() returns
new_unique(now) == Sha256(now)

\* the number of writable and readonly indexes of the lookups from i on
RECURSIVE PlaceholderCount(_, _)
PlaceholderCount(lookups, i) ==
  IF i > Len(lookups) THEN 0
  ELSE Len(lookups[i].writable_indexes) + Len(lookups[i].readonly_indexes)
       + PlaceholderCount(lookups, i + 1)

\* v0_to_legacy_message: one new_unique() per writable and per readonly
\* index, lookup after lookup; nows[k] is the clock reading of the k-th call
v0_to_legacy_message(v0_message, nows) ==
  Ok(SolanaMessage(
       v0_message.header,
       v0_message.account_keys
         \o [k \in 1..PlaceholderCount(v0_message.address_table_lookups, 1) |->
               new_unique(nows[k])],
       v0_message.recent_blockhash,
       v0_message.instructions))

\* ---- validation and builders
\* the first complaint about instruction i and those after it, "None" if none
RECURSIVE ValidateInstructions(_, _, _)
ValidateInstructions(instructions, i, num_accounts) ==
  IF i > Len(instructions) THEN "None"
  ELSE IF instructions[i].program_id_index >= num_accounts
  THEN "TransactionExecutionFailed: Invalid program_id_index"
  ELSE IF \E k \in 1..Len(instructions[i].accounts) :
            instructions[i].accounts[k] >= num_accounts
  THEN "TransactionExecutionFailed: Invalid account index"
  ELSE ValidateInstructions(instructions, i + 1, num_accounts)

\* validate_transaction_format checking the signature count only
validate_transaction_format_signatures_only(t) ==
  IF Len(t.signatures) # t.message.header.num_required_signatures
  THEN Err("TransactionExecutionFailed: Signature count mismatch", "unit")
  ELSE Ok("unit")

validate_transaction_format(t) ==
  IF Len(t.signatures) # t.message.header.num_required_signatures
  THEN Err("TransactionExecutionFailed: Signature count mismatch", "unit")
  ELSE LET num_accounts == Len(t.message.account_keys) % 256
           complaint == ValidateInstructions(t.message.instructions, 1, num_accounts)
       IN IF complaint # "None" THEN Err(complaint, "unit") ELSE Ok("unit")

\* create_transfer_transaction with the two account indices exchanged
create_transfer_transaction_swapped(from, to, lamports, recent_blockhash) ==
  SolanaTransaction(
    <<Repeat(0, SIGNATURE_BYTES)>>,
    SolanaMessage(MessageHeader(1, 0, 1), <<from, to, KeyBytes(0)>>, recent_blockhash,
                  <<CompiledInstruction(2, <<1, 0>>, <<2>> \o to_le_bytes(lamports))>>))

create_transfer_transaction(from, to, lamports, recent_blockhash) ==
  SolanaTransaction(
    <<Repeat(0, SIGNATURE_BYTES)>>,
    SolanaMessage(MessageHeader(1, 0, 1), <<from, to, KeyBytes(0)>>, recent_blockhash,
                  <<CompiledInstruction(2, <<0, 1>>, <<2>> \o to_le_bytes(lamports))>>))

\* integrated_runtime.rs
create_test_transfer(from, to, lamports) ==
  create_transfer_transaction(KeyBytes(from), KeyBytes(to), lamports, Repeat(0, 32))

\* ---- the runtime's reading of a parsed transaction
\* a little-endian u64 as a lamport amount of the model's width
LamportsOf(bytes) == (bytes[1] + 256 * bytes[2] + 65536 * bytes[3]) % U64

\* a little-endian u64 below 2^24 as a byte count
SpaceOf(bytes) == bytes[1] + 256 * bytes[2] + 65536 * bytes[3]

\* instruction data in the words try_from_slice reads; the payloads of the
\* model carry the fixed-width variants only
BorshWords(data) ==
  IF Len(data) = 9 /\ data[1] = 2 THEN <<2, LamportsOf(SubSeq(data, 2, 9))>>
  ELSE IF Len(data) = 33 /\ data[1] = 1 THEN <<1, KeyOf(SubSeq(data, 2, 33))>>
  ELSE IF Len(data) = 49 /\ data[1] = 0
  THEN <<0, LamportsOf(SubSeq(data, 2, 9)), SpaceOf(SubSeq(data, 10, 17)),
         KeyOf(SubSeq(data, 18, 49))>>
  ELSE IF Len(data) = 9 /\ data[1] = 4 THEN <<4, SpaceOf(SubSeq(data, 2, 9))>>
  ELSE IF Len(data) = 0 THEN <<>>
  ELSE <<8>>

\* the parts of a parsed transaction the runtime reads: the keys as
\* Pubkey::new(pk.0), the instructions, and the signature counts
Message(src, t, tx_data) ==
  [src |-> src,
   account_keys |-> [i \in 1..Len(t.message.account_keys) |->
                       KeyOf(t.message.account_keys[i])],
   len |-> Len(t.message.instructions),
   fixed |-> [i \in 1..Len(t.message.instructions) |->
                CompiledInstruction(t.message.instructions[i].program_id_index,
                                    t.message.instructions[i].accounts,
                                    BorshWords(t.message.instructions[i].data))],
   signatures |-> Len(t.signatures),
   num_required_signatures |-> t.message.header.num_required_signatures,
   data |-> tx_data]

\* ---------------------------------------------------------------- inputs
Amounts == {0, 2, U64 - 2}

\* the account keys of a transaction supplied by a caller
CallerKeys == <<TEST_ACCOUNT_KEY, OTHER_KEY, SYSTEM_PROGRAM_ID, DEMO_PROGRAM_ID>>

\* instructions addressed to the System Program (program_id_index 2), by
\* the handler their data selects
TransferInstructions ==
  {CompiledInstruction(2, a, <<2, n>>) :
     a \in {<<0, 1>>, <<1, 0>>, <<0, 0>>, <<0>>}, n \in Amounts}

CreateAccountInstructions ==
  {CompiledInstruction(2, a, d) :
     a \in {<<0, 1>>, <<0, 0>>, <<0, 2>>, <<1>>},
     d \in {<<0, 2, 0, SYSTEM_PROGRAM_ID>>, <<0, 2, 64, DEMO_PROGRAM_ID>>,
            <<0, U64 - 2, 0, SYSTEM_PROGRAM_ID>>}}

AssignInstructions ==
  {CompiledInstruction(2, a, <<1, DEMO_PROGRAM_ID>>) : a \in {<<1>>, <<0>>, <<>>}}

AllocateInstructions ==
  {CompiledInstruction(2, a, <<4, s>>) : a \in {<<1>>, <<>>}, s \in {64, 139850000}}
  \cup {CompiledInstruction(2, <<1>>, <<4, s>>) : s \in {128, 139790000}}

SeededInstructions ==
  {CompiledInstruction(2, <<0, 1>>, <<3, TEST_ACCOUNT_KEY, 0, 2, 0, SYSTEM_PROGRAM_ID>>),
   CompiledInstruction(2, <<1>>, <<5, TEST_ACCOUNT_KEY, 0, 64, DEMO_PROGRAM_ID>>),
   CompiledInstruction(2, <<1>>, <<6, TEST_ACCOUNT_KEY, 0, DEMO_PROGRAM_ID>>),
   CompiledInstruction(2, <<0, 1>>, <<7, 2, 0, SYSTEM_PROGRAM_ID>>)}

\* data that selects no instruction, and indices past the key list
RejectedInstructions ==
  {CompiledInstruction(2, <<1>>, <<8, 64>>),
   CompiledInstruction(2, <<0, 1>>, <<>>),
   CompiledInstruction(2, <<3, 4>>, <<2, 0>>),
   CompiledInstruction(4, <<0, 1>>, <<2, 0>>)}

\* instructions addressed to another program (program_id_index 3)
ProgramInstructions ==
  {CompiledInstruction(3, <<0, 1>>, <<7, 7>>), CompiledInstruction(3, <<>>, <<>>)}

CallerInstructions ==
  TransferInstructions \cup CreateAccountInstructions \cup AssignInstructions
  \cup AllocateInstructions \cup SeededInstructions \cup RejectedInstructions
  \cup ProgramInstructions

\* tx: the message parts the runtime reads.  `fixed` holds the instructions
\* when a builder fixed them; a caller's instructions are drawn per iteration.
NoTx == [src |-> "none", account_keys |-> <<>>, len |-> 0, fixed |-> <<>>,
         signatures |-> 0, num_required_signatures |-> 0, data |-> <<>>]

Candidates == IF tx.src = "caller" THEN CallerInstructions ELSE {tx.fixed[ip]}

\* payloads handed to execute_solana_transaction: a transfer as the builder
\* and the encoder give it, the same in the compact layout the manual parser
\* reads, the transfer without its signature, with a program index and with
\* an account index one past the keys, cut short, and nothing at all
Blockhash == Repeat(3, 32)
TransferTransaction ==
  create_transfer_transaction(KeyBytes(TEST_ACCOUNT_KEY), KeyBytes(OTHER_KEY), 2,
                              Blockhash)
WithInstruction(t, c) == [t EXCEPT !.message.instructions = <<c>>]

\* the layout parse_transaction_manual reads: one-byte counts, bare arrays
CompactInstruction(c) ==
  <<c.program_id_index, Len(c.accounts)>> \o c.accounts \o <<Len(c.data)>> \o c.data

CompactMessage(m) ==
  <<m.header.num_required_signatures, m.header.num_readonly_signed_accounts,
    m.header.num_readonly_unsigned_accounts, Len(m.account_keys)>>
  \o Concat(m.account_keys, 1, Len(m.account_keys)) \o m.recent_blockhash
  \o <<Len(m.instructions)>>
  \o Concat([i \in 1..Len(m.instructions) |-> CompactInstruction(m.instructions[i])],
            1, Len(m.instructions))

CompactPayload(t) ==
  <<Len(t.signatures)>> \o Concat(t.signatures, 1, Len(t.signatures)) \o CompactMessage(t.message)

ExecutePayloads ==
  {serialize_transaction(TransferTransaction),
   CompactPayload(TransferTransaction),
   serialize_transaction([TransferTransaction EXCEPT !.signatures = <<>>]),
   serialize_transaction(
     WithInstruction(TransferTransaction,
                     CompiledInstruction(3, <<0, 1>>, <<2>> \o to_le_bytes(2)))),
   serialize_transaction(
     WithInstruction(TransferTransaction,
                     CompiledInstruction(2, <<0, 3>>, <<2>> \o to_le_bytes(2)))),
   SubSeq(serialize_transaction(TransferTransaction), 1, 100),
   <<>>}

\* the second runtime: `on` tells whether the run keeps one
NoTwin == [on |-> FALSE, accounts |-> EmptyMap, programs |-> EmptyMap,
           context |-> [compute_units_remaining |-> 0, log_messages |-> <<>>],
           result |-> [tag |-> "None"]]
Twin(accts, progs, ctx, res) ==
  IF twin.on
  THEN [on |-> TRUE, accounts |-> accts, programs |-> progs, context |-> ctx,
        result |-> res]
  ELSE twin
NoWire == [op |-> "none", src |-> "none", tx |-> NoTransaction, data |-> <<>>,
           out |-> Ok("unit"), v0 |-> FALSE, again |-> Ok("unit")]

NoContext == [compute_units_remaining |-> 0, log_messages |-> <<>>]
NoInstruction == CompiledInstruction(0, <<>>, <<>>)
NoLast == [op |-> "none", ip |-> 0, instruction |-> NoInstruction, status |-> "none",
           error |-> "None"]

NoPrev == [last |-> NoLast, accounts |-> EmptyMap]

RNone == [tag |-> "None"]
RErr(e) == [tag |-> "Err", error |-> e]
RPanic == [tag |-> "Panic"]
TransactionResult(success, consumed, logs, error) ==
  [tag |-> "Ok", success |-> success, compute_units_consumed |-> consumed,
   logs |-> logs, error |-> error]

\* verify_transaction_signatures, as "Ok" or the error it returns
verify_transaction_signatures(t, verifies) ==
  IF t.signatures # t.num_required_signatures THEN "InvalidSignature"
  ELSE IF \E i \in 1..t.signatures : i - 1 >= Len(t.account_keys) \/ ~verifies[i]
  THEN "InvalidSignature"
  ELSE "Ok"

\* ---------------------------------------------------------------- actions
\* the runtime after IntegratedRuntime::new()
New ==
  /\ accounts = initialize_default_accounts
  /\ programs = EmptyMap
  /\ overflow_checks \in BOOLEAN
  /\ pc = "idle"
  /\ tx = NoTx
  /\ ip = 0
  /\ context = NoContext
  /\ result = RNone
  /\ start = [accounts |-> initialize_default_accounts, programs |-> EmptyMap,
              signatures |-> "None"]
  /\ pre = [accounts |-> initialize_default_accounts, programs |-> EmptyMap,
            context |-> NoContext]
  /\ last = NoLast
  /\ prev = NoPrev
  /\ ops = 0
  /\ wire = NoWire

\* the build without the "firedancer" feature
Init ==
  /\ New
  /\ firedancer = FALSE
  /\ twin = NoTwin

\* the build with the "firedancer" feature
InitFiredancer ==
  /\ New
  /\ firedancer = TRUE
  /\ twin = NoTwin

\* two runtimes side by side
InitTwin ==
  /\ New
  /\ firedancer = FALSE
  /\ twin = [NoTwin EXCEPT !.on = TRUE]

\* execute_solana_transaction_parsed carrying on with the context of the
\* transaction before
Begin_keeps_context(t) ==
  /\ pc = "idle"
  /\ ops + t.len <= MaxOps
  /\ tx' = t
  /\ ip' = 1
  /\ pc' = "exec"
  /\ context' = context
  /\ result' = RNone
  /\ IF firedancer
     THEN \E verifies \in [1..t.signatures -> BOOLEAN] :
            start' = [accounts |-> accounts, programs |-> programs,
                      signatures |-> verify_transaction_signatures(t, verifies)]
     ELSE start' = [accounts |-> accounts, programs |-> programs,
                    signatures |-> "None"]
  /\ pre' = [accounts |-> accounts, programs |-> programs,
             context |-> ExecutionContext_new(compute_budget)]
  /\ last' = NoLast
  /\ prev' = NoPrev
  /\ ops' = ops + t.len
  /\ twin' = Twin(accounts, programs, ExecutionContext_new(compute_budget), RNone)
  /\ UNCHANGED <<accounts, programs, overflow_checks, firedancer, wire>>

\* execute_solana_transaction_parsed, up to the loop.  `verifies` is what
\* fd_ed25519_verify answers for each signature.
Begin(t) ==
  /\ pc = "idle"
  /\ ops + t.len <= MaxOps
  /\ tx' = t
  /\ ip' = 1
  /\ pc' = "exec"
  /\ context' = ExecutionContext_new(compute_budget)
  /\ result' = RNone
  /\ IF firedancer
     THEN \E verifies \in [1..t.signatures -> BOOLEAN] :
            start' = [accounts |-> accounts, programs |-> programs,
                      signatures |-> verify_transaction_signatures(t, verifies)]
     ELSE start' = [accounts |-> accounts, programs |-> programs,
                    signatures |-> "None"]
  /\ pre' = [accounts |-> accounts, programs |-> programs,
             context |-> ExecutionContext_new(compute_budget)]
  /\ last' = NoLast
  /\ prev' = NoPrev
  /\ ops' = ops + t.len
  /\ twin' = Twin(accounts, programs, ExecutionContext_new(compute_budget), RNone)
  /\ UNCHANGED <<accounts, programs, overflow_checks, firedancer, wire>>

\* execute_solana_transaction returning the error of the parser or of the
\* validation
Reject(tx_data, e) ==
  /\ pc = "idle"
  /\ tx' = [NoTx EXCEPT !.src = "bytes", !.data = tx_data]
  /\ ip' = 0
  /\ context' = NoContext
  /\ result' = RErr(e)
  /\ start' = [accounts |-> accounts, programs |-> programs, signatures |-> "None"]
  /\ pre' = [accounts |-> accounts, programs |-> programs, context |-> NoContext]
  /\ last' = [op |-> "execute", ip |-> 0, instruction |-> NoInstruction,
              status |-> "err", error |-> e]
  /\ prev' = NoPrev
  /\ twin' = Twin(accounts, programs, NoContext, RErr(e))
  /\ UNCHANGED <<accounts, programs, overflow_checks, firedancer, pc, ops, wire>>

\* execute_solana_transaction(tx_data)
ExecuteBytes ==
  /\ pc = "idle"
  /\ \E tx_data \in ExecutePayloads :
       \E solana_tx \in {parse_transaction(tx_data)} :
         IF ~solana_tx.ok THEN Reject(tx_data, solana_tx.error)
         ELSE \E valid \in {validate_transaction_format(solana_tx.value)} :
                IF ~valid.ok THEN Reject(tx_data, valid.error)
                ELSE \E t \in {Message("bytes", solana_tx.value, tx_data)} : Begin(t)

ExecuteTestTransfer ==
  /\ pc = "idle"
  /\ ops < MaxOps
  /\ \E from \in Pubkeys, to \in Pubkeys, n \in Amounts :
       \E t \in {Message("create_test_transfer", create_test_transfer(from, to, n),
                          <<>>)} :
         Begin(t)

ExecuteParsed ==
  /\ pc = "idle"
  /\ \E n \in 0..MaxInstr :
       Begin([src |-> "caller", account_keys |-> CallerKeys, len |-> n, fixed |-> <<>>,
              signatures |-> 1, num_required_signatures |-> 1, data |-> <<>>])

\* one iteration of the loop; the second instance runs the same instruction
ProcessInstruction ==
  /\ pc = "exec"
  /\ ip <= tx.len
  /\ \E instruction \in Candidates :
       LET r == process_one(accounts, programs, context, tx.account_keys, instruction)
           r2 == process_one(twin.accounts, twin.programs, twin.context,
                             tx.account_keys, instruction)
       IN
       /\ accounts' = r.accounts
       /\ programs' = r.programs
       /\ context' = r.context
       /\ pre' = [accounts |-> accounts, programs |-> programs, context |-> context]
       /\ last' = [op |-> "instruction", ip |-> ip, instruction |-> instruction,
                   status |-> r.status, error |-> r.error]
       /\ prev' = [last |-> last, accounts |-> pre.accounts]
       /\ pc' = IF r.status = "ok" THEN "exec"
                ELSE IF r.status = "err" THEN "idle" ELSE "crashed"
       /\ ip' = IF r.status = "ok" THEN ip + 1 ELSE ip
       /\ result' = IF r.status = "ok" THEN result
                    ELSE IF r.status = "err" THEN RErr(r.error) ELSE RPanic
       /\ twin' = IF twin.on
                  THEN Twin(r2.accounts, r2.programs, r2.context,
                            IF r2.status = "ok" THEN twin.result
                            ELSE IF r2.status = "err" THEN RErr(r2.error)
                            ELSE RPanic)
                  ELSE twin
  /\ UNCHANGED <<overflow_checks, firedancer, tx, start, ops, wire>>

\* after the loop: Ok(TransactionResult { .. })
Finish ==
  /\ pc = "exec"
  /\ ip > tx.len
  /\ result' = TransactionResult(TRUE,
                                 compute_budget - context.compute_units_remaining,
                                 context.log_messages, "None")
  /\ twin' = Twin(twin.accounts, twin.programs, twin.context,
                  TransactionResult(
                    TRUE, compute_budget - twin.context.compute_units_remaining,
                    twin.context.log_messages, "None"))
  /\ pc' = "idle"
  /\ UNCHANGED <<accounts, programs, overflow_checks, firedancer, tx, ip, context,
                 start, pre, last, prev, ops, wire>>

\* fund_account(pubkey, lamports), between transactions
Fund ==
  /\ pc = "idle"
  /\ ops < MaxOps
  /\ \E pubkey \in Pubkeys, n \in Amounts :
       LET r == fund_account(accounts, pubkey, n) IN
       /\ accounts' = r.accounts
       /\ pc' = IF r.status = "ok" THEN "idle" ELSE "crashed"
       /\ last' = [op |-> "fund", ip |-> 0,
                   instruction |-> CompiledInstruction(0, <<pubkey>>, <<n>>),
                   status |-> r.status, error |-> "None"]
  /\ ops' = ops + 1
  /\ tx' = NoTx
  /\ ip' = 0
  /\ context' = NoContext
  /\ result' = RNone
  /\ start' = [accounts |-> accounts, programs |-> programs, signatures |-> "None"]
  /\ pre' = [accounts |-> accounts, programs |-> programs, context |-> NoContext]
  /\ prev' = NoPrev
  /\ twin' = Twin(EmptyMap, EmptyMap, NoContext, RNone)
  /\ UNCHANGED <<programs, overflow_checks, firedancer, wire>>

Next ==
  \/ ExecuteTestTransfer
  \/ ExecuteParsed
  \/ ProcessInstruction
  \/ Finish
  \/ Fund

Spec == Init /\ [][Next]_vars

\* the same operations in the build that verifies signatures
SpecFiredancer == InitFiredancer /\ [][Next]_vars

\* the same operations on two runtimes at once
SpecTwin == InitTwin /\ [][Next]_vars

\* transactions that arrive as bytes
NextBytes ==
  \/ ExecuteBytes
  \/ ProcessInstruction
  \/ Finish
  \/ Fund

SpecBytes == Init /\ [][NextBytes]_vars

\* ---------------------------------------------------------------- the VM on its own
\* bytecode handed to load_program: empty, three bytes of the magic, the 100 zero
\* bytes of test_program_loading, a wrong fourth byte, the hello-world program and
\* the program the runtime loads
create_hello_world_bytecode == <<127, 69, 76, 70>>

Bytecodes ==
  {<<>>, <<127, 69, 76>>, [i \in 1..100 |-> 0], <<127, 69, 76, 71, 2>>,
   create_hello_world_bytecode, create_simple_bpf_program}

\* one call on the VM: `value` is what Ok carries, `accts` the caller's accounts
\* after the call
VmCall(op, program_id, bytes, r, value, accts) ==
  /\ last' = [op |-> op, ip |-> 0,
              instruction |-> CompiledInstruction(0, <<program_id>>, bytes),
              status |-> IF r.ok THEN "ok" ELSE "err", error |-> r.error]
  /\ result' = IF r.ok THEN [tag |-> "Ok", value |-> value] ELSE RErr(r.error)
  /\ accounts' = accts
  /\ ops' = ops + 1
  /\ pre' = [accounts |-> accounts, programs |-> programs, context |-> NoContext]
  /\ start' = [accounts |-> accounts, programs |-> programs, signatures |-> "None"]
  /\ prev' = [last |-> last, accounts |-> accounts]
  /\ UNCHANGED <<overflow_checks, pc, tx, ip, context, firedancer, twin, wire>>

\* vm.load_program(&program_id, &bytecode)
LoadProgram ==
  /\ pc = "idle"
  /\ ops < MaxOps
  /\ \E program_id \in Pubkeys, bytecode \in Bytecodes :
       \E r \in {load_program(programs, program_id, bytecode)} :
         /\ programs' = r.programs
         /\ VmCall("load_program", program_id, bytecode, r, 0, accounts)

\* vm.load_hello_world_program()
LoadHelloWorld ==
  /\ pc = "idle"
  /\ ops < MaxOps
  /\ \E r \in {load_program(programs, DEMO_PROGRAM_ID, create_hello_world_bytecode)} :
       /\ programs' = r.programs
       /\ VmCall("load_program", DEMO_PROGRAM_ID, create_hello_world_bytecode, r,
                 DEMO_PROGRAM_ID, accounts)

\* vm.execute_program(&program_id, &instruction_data, &mut accounts), which takes
\* &self; the caller hands over its accounts for `keys` and keeps what comes back
ExecuteProgram ==
  /\ pc = "idle"
  /\ ops < MaxOps
  /\ \E program_id \in Pubkeys, instruction_data \in {<<>>, <<1, 2, 3>>},
        keys \in {<<>>, <<TEST_ACCOUNT_KEY, SYSTEM_PROGRAM_ID>>} :
       LET positions == [i \in 1..Len(keys) |-> i - 1] IN
       \E r \in {execute_program(programs, program_id, instruction_data,
                                  CopyOut(accounts, keys, positions))} :
         /\ programs' = programs
         /\ VmCall("execute_program", program_id, instruction_data, r, r.value,
                   WriteBack(accounts, keys, positions, r.account_infos, 1))

NextVm ==
  \/ LoadProgram
  \/ LoadHelloWorld
  \/ ExecuteProgram

SpecVm == Init /\ [][NextVm]_vars

\* execute_solana_transaction_parsed on a runtime, together with direct calls on a VM
NextVmRuntime ==
  \/ NextVm
  \/ ExecuteParsed
  \/ ProcessInstruction
  \/ Finish

SpecVmRuntime == Init /\ [][NextVmRuntime]_vars

\* ---------------------------------------------------------------- the transaction format
\* One call of the format per run, and a parse of what the encoder returned.
\* transactions handed to the encoder and to the validation
Transfers ==
  {create_transfer_transaction(KeyBytes(from), KeyBytes(to), n, Blockhash) :
     from \in {TEST_ACCOUNT_KEY, OTHER_KEY}, to \in {TEST_ACCOUNT_KEY, OTHER_KEY},
     n \in {0, 2, 70000}}

TransferInstruction == TransferTransaction.message.instructions[1]

\* 256 keys, and 256 signatures: one more than a u8 counts
ManyKeys ==
  [TransferTransaction EXCEPT
     !.message.account_keys = [i \in 1..256 |-> KeyBytes(i - 1)]]
ManySignatures ==
  [TransferTransaction EXCEPT
     !.signatures = [i \in 1..256 |-> Repeat(i - 1, SIGNATURE_BYTES)],
     !.message.header.num_required_signatures = 0]

EditedTransfers ==
  {[TransferTransaction EXCEPT !.signatures = <<>>],
   [TransferTransaction EXCEPT !.signatures = <<Repeat(7, SIGNATURE_BYTES),
                                                Repeat(9, SIGNATURE_BYTES)>>],
   [TransferTransaction EXCEPT !.message.header = MessageHeader(17, 0, 1)],
   [TransferTransaction EXCEPT !.message.instructions = <<>>],
   [TransferTransaction EXCEPT !.message.account_keys = <<>>,
                               !.message.instructions = <<>>],
   [TransferTransaction EXCEPT
      !.message.instructions =
         <<TransferInstruction, CompiledInstruction(2, <<1, 0>>, <<>>)>>],
   [TransferTransaction EXCEPT
      !.message.instructions =
         <<TransferInstruction, CompiledInstruction(3, <<0, 1>>, <<2>>)>>],
   WithInstruction(TransferTransaction, CompiledInstruction(3, <<0, 1>>, <<2>>)),
   WithInstruction(TransferTransaction, CompiledInstruction(2, <<0, 3>>, <<2>>)),
   WithInstruction(TransferTransaction, CompiledInstruction(2, <<>>, Repeat(5, 200))),
   ManyKeys,
   ManySignatures}

Transactions == Transfers \cup EditedTransfers

\* payloads in the compact layout, legacy and v0, whole and cut short
CompactTransfer == CompactPayload(TransferTransaction)

V0Payload(t, lookups) ==
  <<128 + Len(t.signatures)>> \o Concat(t.signatures, 1, Len(t.signatures)) \o CompactMessage(t.message)
  \o lookups

Lookup == KeyBytes(9) \o <<2, 0, 1, 1, 5>>

Payloads ==
  {SubSeq(CompactTransfer, 1, k) : k \in 0..Len(CompactTransfer)}
  \cup {CompactPayload(t) : t \in EditedTransfers \ {ManyKeys, ManySignatures}}
  \cup {<<1>> \o Repeat(0, SIGNATURE_BYTES) \o <<129, 1>>
          \o CompactMessage(TransferTransaction.message),
        <<1>> \o Repeat(0, SIGNATURE_BYTES) \o <<129>>,
        V0Payload(TransferTransaction, <<>>),
        V0Payload(TransferTransaction, <<1>> \o Lookup),
        V0Payload(TransferTransaction, <<2>> \o Lookup),
        V0Payload(WithInstruction(TransferTransaction,
                                  CompiledInstruction(3, <<0, 7>>, <<2>>)), <<0>>),
        V0Payload([TransferTransaction EXCEPT !.signatures = <<>>], <<>>),
        SubSeq(V0Payload(TransferTransaction, <<>>), 1, 150),
        <<129>>}

Clock == 1..MaxClock

Wire(op, src, t, data, out) ==
  [op |-> op, src |-> src, tx |-> t, data |-> data, out |-> out,
   v0 |-> is_v0_transaction(data), again |-> out]

\* serialize_transaction(t)
Serialize ==
  /\ wire.op = "none"
  /\ \E t \in Transactions :
       wire' = Wire("serialize_transaction", "caller", t, serialize_transaction(t),
                 Ok("unit"))

\* parse_transaction on what serialize_transaction returned
ParseSerialized ==
  /\ wire.op = "serialize_transaction"
  /\ wire' = Wire("parse_transaction", "serialize_transaction", wire.tx, wire.data,
                  parse_transaction(wire.data))

\* parse_transaction on a payload from outside
ParsePayload ==
  /\ wire.op = "none"
  /\ \E data \in Payloads :
       wire' = Wire("parse_transaction", "caller", NoTransaction, data,
                 parse_transaction(data))

\* parse_versioned_transaction on what serialize_transaction returned
ParseVersionedSerialized ==
  /\ wire.op = "serialize_transaction"
  /\ wire' = Wire("parse_versioned_transaction", "serialize_transaction", wire.tx,
                  wire.data, parse_versioned_transaction(wire.data))

\* parse_versioned_transaction on a payload from outside
ParseVersionedPayload ==
  /\ wire.op = "none"
  /\ \E data \in Payloads :
       wire' = Wire("parse_versioned_transaction", "caller", NoTransaction, data,
                 parse_versioned_transaction(data))

\* validate_transaction_format(t)
Validate ==
  /\ wire.op = "none"
  /\ \E t \in Transactions :
       wire' = Wire("validate_transaction_format", "caller", t, <<>>,
                 validate_transaction_format(t))

\* v0_to_legacy_message on a parsed v0 message, called twice; each call
\* reads the clock once per placeholder
ResolveV0 ==
  /\ wire.op = "parse_versioned_transaction"
  /\ wire.out.ok
  /\ wire.out.value.message.version = "V0"
  /\ \E v0_message \in {wire.out.value.message} :
       \E first, second \in
            [1..PlaceholderCount(v0_message.address_table_lookups, 1) -> Clock] :
         wire' = [Wire("v0_to_legacy_message", "parse_versioned_transaction",
                       wire.out.value, wire.data,
                       v0_to_legacy_message(v0_message, first))
                    EXCEPT !.again = v0_to_legacy_message(v0_message, second)]

NextFormat ==
  \/ (Serialize /\ UNCHANGED runtime)
  \/ (ParseSerialized /\ UNCHANGED runtime)
  \/ (ParsePayload /\ UNCHANGED runtime)
  \/ (ParseVersionedSerialized /\ UNCHANGED runtime)
  \/ (ParseVersionedPayload /\ UNCHANGED runtime)
  \/ (Validate /\ UNCHANGED runtime)
  \/ (ResolveV0 /\ UNCHANGED runtime)

SpecFormat == Init /\ [][NextFormat]_vars

\* ---------------------------------------------------------------- reading the history
LastInstr == last.instruction

\* the last step ran an instruction whose program id resolved to the System Program
LastProgramIsSystem ==
  /\ last.op = "instruction"
  /\ LastInstr.program_id_index < Len(tx.account_keys)
  /\ tx.account_keys[LastInstr.program_id_index + 1] = SYSTEM_PROGRAM_ID

LastIndicesInRange ==
  \A i \in 1..Len(LastInstr.accounts) : LastInstr.accounts[i] < Len(tx.account_keys)

LastDecoded == try_from_slice(LastInstr.data)

\* the key at position i of the last instruction's account list
LastKey(i) == tx.account_keys[LastInstr.accounts[i] + 1]

LastKeys == {LastKey(i) : i \in 1..Len(LastInstr.accounts)}

\* the last instruction was charged its overhead and handed to the System
\* Program handler of one of `kinds` with at least n account slots
HandlerReached(kinds, n) ==
  /\ LastProgramIsSystem
  /\ LastIndicesInRange
  /\ pre.context.compute_units_remaining >= 1000
  /\ LastDecoded.kind \in kinds
  /\ Len(LastInstr.accounts) >= n

RECURSIVE SumLamports(_, _)
SumLamports(accts, keys) ==
  IF keys = {} THEN 0
  ELSE LET k == CHOOSE x \in keys : TRUE IN
       get_balance(accts, k) + SumLamports(accts, keys \ {k})

BalancesEqual(a, b) == \A k \in Pubkeys : get_balance(a, k) = get_balance(b, k)

\* ---------------------------------------------------------------- claims

\* C1: every Transfer the runtime executes successfully leaves the sum of
\* the lamports of its two referenced accounts (from and to, whatever keys
\* they name and whatever the amount) as it was before the instruction.
C1_TransferConservesLamports ==
  (HandlerReached({"Transfer"}, 2) /\ last.status = "ok")
    => SumLamports(accounts, {LastKey(1), LastKey(2)})
         = SumLamports(pre.accounts, {LastKey(1), LastKey(2)})

\* C2: every successful System Program instruction leaves the sum of the
\* lamports over the accounts it references as it was before the
\* instruction; stated here for the case the claim names, CreateAccount and
\* CreateAccountWithSeed with a funder and a new account of different keys,
\* whatever the new account held before.
C2_CreateAccountConservesLamports ==
  (/\ HandlerReached({"CreateAccount", "CreateAccountWithSeed"}, 2)
   /\ LastKey(1) # LastKey(2)
   /\ last.status = "ok")
    => SumLamports(accounts, LastKeys) = SumLamports(pre.accounts, LastKeys)

\* C3, as claimed: a Transfer or CreateAccount (handed to its handler with
\* its two accounts) whose funder holds fewer lamports than the amount fails
\* with InsufficientFunds and every balance is what it was before the
\* transaction.
C3_Funder == LastKey(1)

C3_FunderShort ==
  /\ LastProgramIsSystem
  /\ LastDecoded.kind \in {"Transfer", "CreateAccount"}
  /\ Len(LastInstr.accounts) >= 1
  /\ LastInstr.accounts[1] < Len(tx.account_keys)
  /\ get_balance(pre.accounts, C3_Funder) < LastDecoded.lamports

C3_InsufficientFundsKeepsTransactionBalances ==
  (HandlerReached({"Transfer", "CreateAccount"}, 2) /\ C3_FunderShort)
    => /\ last.status = "err"
       /\ last.error = "InsufficientFunds"
       /\ BalancesEqual(accounts, start.accounts)

\* C3, amended: a Transfer or CreateAccount that reaches its handler with
\* its two accounts and whose funder holds fewer lamports than the amount
\* fails with InsufficientFunds, the transaction returns that error, and
\* every balance is what it was before that instruction.
C3_InsufficientFundsKeepsInstructionBalances ==
  (HandlerReached({"Transfer", "CreateAccount"}, 2) /\ C3_FunderShort)
    => /\ last.status = "err"
       /\ last.error = "InsufficientFunds"
       /\ pc = "idle"
       /\ result = RErr("InsufficientFunds")
       /\ BalancesEqual(accounts, pre.accounts)

\* a second instruction fails for lack of funds after the first one moved lamports
C3_Witness ==
  /\ HandlerReached({"Transfer", "CreateAccount"}, 2)
  /\ C3_FunderShort
  /\ last.error = "InsufficientFunds"
  /\ last.ip = 2
  /\ ~BalancesEqual(pre.accounts, start.accounts)

\* C4: on a fresh runtime the transaction built by create_test_transfer(A, B, n),
\* A the funded test account, B absent, n <= balance(A), succeeds, reports
\* 1200 compute units, takes n from A and leaves B with n.
C4_Amount == tx.fixed[1].data[2]

C4_FreshTestTransfer ==
  /\ tx.src = "create_test_transfer"
  /\ start.accounts = initialize_default_accounts
  /\ start.programs = EmptyMap
  /\ tx.account_keys[1] = TEST_ACCOUNT_KEY
  /\ tx.account_keys[2] \notin DOMAIN start.accounts
  /\ C4_Amount <= TEST_ACCOUNT_LAMPORTS

C4_TestTransferSucceeds ==
  C4_FreshTestTransfer
    => /\ pc # "crashed"
       /\ last.op = "instruction" => last.status = "ok"
       /\ pc = "idle"
            => /\ result.tag = "Ok"
               /\ result.success
               /\ result.error = "None"
               /\ result.compute_units_consumed = 1200
               /\ get_balance(accounts, tx.account_keys[1])
                    = TEST_ACCOUNT_LAMPORTS - C4_Amount
               /\ get_balance(accounts, tx.account_keys[2]) = C4_Amount

C4_Witness ==
  /\ C4_FreshTestTransfer
  /\ pc = "idle"
  /\ result.tag = "Ok"
  /\ C4_Amount = 2
  /\ tx.account_keys[2] = OTHER_KEY

\* C5: an Assign, Allocate or CreateAccount (seeded variants included) whose
\* target account is owned by another program than the System Program fails
\* and leaves the target's owner, data and lamports as they were (checked on
\* instructions that list each key once).
C5_Kinds == {"Assign", "AssignWithSeed", "Allocate", "AllocateWithSeed",
             "CreateAccount", "CreateAccountWithSeed"}

C5_TargetPos ==
  IF LastDecoded.kind \in {"CreateAccount", "CreateAccountWithSeed"} THEN 2 ELSE 1

C5_Target == LastKey(C5_TargetPos)

C5_TargetNotSystemOwned ==
  /\ HandlerReached(C5_Kinds, C5_TargetPos)
  /\ \A i, j \in 1..Len(LastInstr.accounts) : LastKey(i) = LastKey(j) => i = j
  /\ C5_Target \in DOMAIN pre.accounts
  /\ pre.accounts[C5_Target].owner # SYSTEM_PROGRAM_ID

C5_NonSystemOwnedTargetRejected ==
  C5_TargetNotSystemOwned
    => /\ last.status = "err"
       /\ accounts[C5_Target].owner = pre.accounts[C5_Target].owner
       /\ accounts[C5_Target].data = pre.accounts[C5_Target].data
       /\ accounts[C5_Target].lamports = pre.accounts[C5_Target].lamports

\* C6: a Transfer whose from and to indices name the same key, of an amount
\* not above the balance, leaves the account's lamports unchanged and is
\* charged the overhead plus 200 units.
C6_SelfTransfer ==
  /\ HandlerReached({"Transfer"}, 2)
  /\ LastKey(1) = LastKey(2)
  /\ LastDecoded.lamports <= get_balance(pre.accounts, LastKey(1))

C6_SelfTransferIsNoOp ==
  C6_SelfTransfer
    => /\ last.status = "ok"
       /\ get_balance(accounts, LastKey(1)) = get_balance(pre.accounts, LastKey(1))
       /\ context.compute_units_remaining
            = pre.context.compute_units_remaining - 1000 - 200

\* C7: instruction k+1 works on the store as instruction k left it: in a
\* transaction whose first instruction is a CreateAccount of N funded by F
\* (F # N, F holding the lamports, the new owner the System Program) and
\* whose second is an Assign of N, both succeed, and afterwards F is reduced
\* by the created lamports, N holds them and N's owner is the assigned one.
PrevInstr == prev.last.instruction
PrevDecoded == try_from_slice(PrevInstr.data)
PrevKey(i) == tx.account_keys[PrevInstr.accounts[i] + 1]

C7_IsCreate(rec, st) ==
  /\ rec.op = "instruction"
  /\ rec.ip = 1
  /\ rec.instruction.program_id_index < Len(tx.account_keys)
  /\ tx.account_keys[rec.instruction.program_id_index + 1] = SYSTEM_PROGRAM_ID
  /\ try_from_slice(rec.instruction.data).kind = "CreateAccount"
  /\ try_from_slice(rec.instruction.data).owner = SYSTEM_PROGRAM_ID
  /\ Len(rec.instruction.accounts) >= 2
  /\ \A i \in 1..Len(rec.instruction.accounts) :
       rec.instruction.accounts[i] < Len(tx.account_keys)
  /\ tx.account_keys[rec.instruction.accounts[1] + 1]
       # tx.account_keys[rec.instruction.accounts[2] + 1]
  /\ get_balance(st, tx.account_keys[rec.instruction.accounts[1] + 1])
       >= try_from_slice(rec.instruction.data).lamports

C7_CreateThenAssign ==
  /\ C7_IsCreate(prev.last, start.accounts)
  /\ last.ip = 2
  /\ HandlerReached({"Assign"}, 1)
  /\ LastKey(1) = PrevKey(2)

C7_EffectsVisibleToNextInstruction ==
  /\ C7_IsCreate(last, start.accounts) => last.status = "ok"
  /\ C7_CreateThenAssign
       => /\ last.status = "ok"
          /\ prev.accounts = start.accounts
          /\ pre.accounts[PrevKey(2)]
               = [Account_new(PrevDecoded.lamports, PrevDecoded.space,
                              SYSTEM_PROGRAM_ID) EXCEPT !.executable = FALSE]
          /\ get_balance(accounts, PrevKey(1))
               = get_balance(start.accounts, PrevKey(1)) - PrevDecoded.lamports
          /\ accounts[PrevKey(2)].lamports = PrevDecoded.lamports
          /\ accounts[PrevKey(2)].data = PrevDecoded.space
          /\ accounts[PrevKey(2)].owner = LastDecoded.owner

C7_Witness ==
  /\ C7_CreateThenAssign
  /\ PrevDecoded.lamports = 2
  /\ PrevKey(2) \notin DOMAIN start.accounts
  /\ accounts[PrevKey(2)].owner = DEMO_PROGRAM_ID
  /\ result.tag = "Ok"

\* C8: when an instruction fails, the store holds none of its changes: every
\* account that was in the store before it is exactly as it was then (so
\* what earlier instructions of the transaction committed stays), and a key
\* the instruction introduced holds the default account.
C8_FailedInstructionNotCommitted ==
  (last.op = "instruction" /\ last.status \in {"err", "panic"})
    => \A k \in Pubkeys :
         IF k \in DOMAIN pre.accounts
         THEN k \in DOMAIN accounts /\ accounts[k] = pre.accounts[k]
         ELSE k \in DOMAIN accounts
                => accounts[k] = Account_new(0, 0, SYSTEM_PROGRAM_ID)

\* the second instruction fails in its handler after the first changed the store
C8_Witness ==
  /\ last.op = "instruction"
  /\ last.ip = 2
  /\ last.status = "err"
  /\ last.error = "InsufficientFunds"
  /\ \E k \in DOMAIN start.accounts : pre.accounts[k] # start.accounts[k]
  /\ \A k \in DOMAIN pre.accounts : accounts[k] = pre.accounts[k]

\* C9: every execution error comes back as a TransactionResult with
\* success = false and the error set, carrying the log messages the
\* ExecutionContext collected up to the failure.
C9_ErrorsReportedInTransactionResult ==
  (pc = "idle" /\ last.op = "instruction" /\ last.status = "err")
    => /\ result.tag = "Ok"
       /\ result.success = FALSE
       /\ result.error # "None"
       /\ result.logs = context.log_messages

\* C10: an instruction that starts with fewer than 1000 compute units left
\* ends the transaction with TransactionExecutionFailed("Compute budget
\* exceeded"), the only form the code gives this error; the store and the
\* program cache are as the earlier instructions left them, and no further
\* instruction of the transaction runs.
C10_BudgetExceededError == "TransactionExecutionFailed: Compute budget exceeded"

C10_OverheadNotCovered ==
  /\ last.op = "instruction"
  /\ pre.context.compute_units_remaining < 1000

C11_BudgetExceededReportsWholeBudget ==
  (pc = "idle" /\ last.op = "instruction" /\ last.error = C10_BudgetExceededError)
    => /\ result.tag = "Ok"
       /\ result.compute_units_consumed = compute_budget

\* C12: throughout a transaction the compute consumed, compute_budget minus
\* the units remaining, never decreases from one instruction to the next
\* and never exceeds the budget; a charge that is not covered leaves the
\* counter unchanged; and the TransactionResult reports exactly that value.
C12_Consumed(ctx) == compute_budget - ctx.compute_units_remaining

C12_ComputeConsumedMonotoneAndBounded ==
  tx.src # "none"
    => /\ C12_Consumed(context) \in 0..compute_budget
       /\ last.op = "instruction"
            => /\ C12_Consumed(context) >= C12_Consumed(pre.context)
               /\ pre.context.compute_units_remaining < 1000
                    => context.compute_units_remaining
                         = pre.context.compute_units_remaining
       /\ result.tag = "Ok"
            => result.compute_units_consumed = C12_Consumed(context)

\* a transaction of two instructions finished, the second having consumed
\* on top of what the first consumed
C12_Witness ==
  /\ pc = "idle"
  /\ result.tag = "Ok"
  /\ last.op = "instruction"
  /\ last.ip = 2
  /\ C12_Consumed(pre.context) >= 1000
  /\ C12_Consumed(context) >= C12_Consumed(pre.context) + 1000
  /\ result.compute_units_consumed = C12_Consumed(context)

\* C13: execute_solana_transaction on bytes that fail to decode, or that
\* decode to a transaction failing structural validation, returns an error
\* and leaves the account store and the program cache as they were before
\* the call.
C13_IndicesInRange(t) ==
  \A i \in 1..Len(t.message.instructions) :
    /\ t.message.instructions[i].program_id_index < Len(t.message.account_keys)
    /\ \A k \in 1..Len(t.message.instructions[i].accounts) :
         t.message.instructions[i].accounts[k] < Len(t.message.account_keys)

C13_Rejectable(tx_data) ==
  \/ ~parse_transaction(tx_data).ok
  \/ Len(parse_transaction(tx_data).value.signatures)
       # parse_transaction(tx_data).value.message.header.num_required_signatures
  \/ ~C13_IndicesInRange(parse_transaction(tx_data).value)

C13_RejectedBytesLeaveStateUnchanged ==
  (tx.src = "bytes" /\ C13_Rejectable(tx.data))
    => /\ last.op = "execute"
       /\ result.tag = "Err"
       /\ pc = "idle"
       /\ accounts = start.accounts
       /\ programs = start.programs

\* bytes that decode but name a program index out of range are rejected
\* after an earlier transaction changed the store
C13_Witness ==
  /\ tx.src = "bytes"
  /\ parse_transaction(tx.data).ok
  /\ ~C13_IndicesInRange(parse_transaction(tx.data).value)
  /\ last.op = "execute"
  /\ result.tag = "Err"
  /\ accounts # initialize_default_accounts
  /\ accounts = start.accounts

\* C14: execute_solana_transaction_parsed validates the structure before
\* executing anything: when any instruction of the transaction names a
\* program_id_index or an account index at or past the end of the account
\* keys, or the signature count differs from the header's, no instruction
\* of the transaction, the earlier valid ones included, executes or changes
\* the store.
C14_OutOfRange(instruction) ==
  \/ instruction.program_id_index >= Len(tx.account_keys)
  \/ \E k \in 1..Len(instruction.accounts) :
       instruction.accounts[k] >= Len(tx.account_keys)

C14_NothingExecutesWhenAnIndexIsOutOfRange ==
  (last.op = "instruction" /\ C14_OutOfRange(last.instruction))
    => /\ last.status = "err"
       /\ accounts = start.accounts
       /\ programs = start.programs

\* C15: validate_transaction_format accepts a transaction if and only if
\* the signature count equals header.num_required_signatures and every
\* program_id_index and account index of every instruction is strictly
\* less than the number of account keys.
C15_WellFormed(t) ==
  /\ Len(t.signatures) = t.message.header.num_required_signatures
  /\ C13_IndicesInRange(t)

C15_AcceptsExactlyTheWellFormed ==
  wire.op = "validate_transaction_format"
    => (wire.out.ok <=> C15_WellFormed(wire.tx))

\* C16: in the build that verifies signatures, a transaction with a
\* signature that does not verify against the message bytes and its account
\* key is rejected, and none of its instructions executes or changes the
\* account store.
C16_UnverifiedSignatureRejectsTransaction ==
  (firedancer /\ tx.src # "none" /\ start.signatures = "InvalidSignature")
    => /\ last.op # "instruction"
       /\ accounts = start.accounts
       /\ result.tag # "Ok"

\* C17: for every legacy transaction T, parse_transaction applied to
\* serialize_transaction(T) succeeds and returns T field for field:
\* signatures, header, account keys, recent blockhash and instructions.
C17_ParseOfSerializeIsIdentity ==
  (wire.op = "parse_transaction" /\ wire.src = "serialize_transaction")
    => /\ wire.out.ok
       /\ wire.out.value.signatures = wire.tx.signatures
       /\ wire.out.value.message.header = wire.tx.message.header
       /\ wire.out.value.message.account_keys = wire.tx.message.account_keys
       /\ wire.out.value.message.recent_blockhash = wire.tx.message.recent_blockhash
       /\ wire.out.value.message.instructions = wire.tx.message.instructions

\* a transaction of two instructions, one with data, came back from its
\* serialized form
C17_Witness ==
  /\ wire.op = "parse_transaction"
  /\ wire.src = "serialize_transaction"
  /\ Len(wire.tx.message.instructions) = 2
  /\ Len(wire.tx.message.instructions[1].data) > 8
  /\ wire.tx.message.recent_blockhash = Blockhash
  /\ wire.data = serialize_transaction(wire.tx)
  /\ wire.out.ok
  /\ wire.out.value = wire.tx

\* C18: every transaction the decoder returns, on any decode path (direct
\* deserialization, manual legacy parse, v0 parse), satisfies the parse-time
\* bounds: header fields at most 16, at most 64 account keys, at most 64
\* instructions, instruction data of at most 1232 bytes, and every
\* program_id_index and account index below the number of account keys.
C18_WithinBounds(message) ==
  /\ message.header.num_required_signatures <= 16
  /\ message.header.num_readonly_signed_accounts <= 16
  /\ message.header.num_readonly_unsigned_accounts <= 16
  /\ Len(message.account_keys) <= 64
  /\ Len(message.instructions) <= 64
  /\ \A i \in 1..Len(message.instructions) :
       /\ Len(message.instructions[i].data) <= 1232
       /\ message.instructions[i].program_id_index < Len(message.account_keys)
       /\ \A k \in 1..Len(message.instructions[i].accounts) :
            message.instructions[i].accounts[k] < Len(message.account_keys)

C18_DecodedTransactionsWithinBounds ==
  (wire.op \in {"parse_transaction", "parse_versioned_transaction"} /\ wire.out.ok)
    => C18_WithinBounds(wire.out.value.message)

\* C19: a payload is treated as a v0 transaction exactly when its first byte
\* has the high bit set, and then the low 7 bits of that byte are the
\* number of 64-byte signatures read; otherwise it is treated as legacy and
\* the first byte is the signature count.  An empty payload is never v0.
C19_HighBit(data) == Len(data) > 0 /\ data[1] >= 128

C19_FirstByteGivesVersionAndSignatureCount ==
  wire.op = "parse_versioned_transaction"
    => /\ wire.v0 = C19_HighBit(wire.data)
       /\ wire.out.ok
            => /\ wire.out.value.message.version
                    = IF C19_HighBit(wire.data) THEN "V0" ELSE "Legacy"
               /\ Len(wire.out.value.signatures) = wire.data[1] % 128
               /\ \A i \in 1..Len(wire.out.value.signatures) :
                    Len(wire.out.value.signatures[i]) = SIGNATURE_BYTES

C20_WitnessError ==
  /\ twin.on
  /\ pc = "idle"
  /\ result.tag = "Err"
  /\ twin.result = result

\* C21: lookup-table resolution is deterministic: resolving the same v0
\* message twice gives the same account_keys, each appended placeholder
\* being a function of the table key and the index only, and the
\* instructions are carried over with their indices unchanged.
C21_ResolutionIsDeterministic ==
  wire.op = "v0_to_legacy_message"
    => /\ wire.out.ok /\ wire.again.ok
       /\ wire.again.value.account_keys = wire.out.value.account_keys
       /\ wire.out.value.instructions = wire.tx.message.instructions
       /\ wire.again.value.instructions = wire.tx.message.instructions

\* C22: fund_account(pk, 0) does not modify the account store, whether or
\* not pk is present: get_account(pk) returns what it returned before (None
\* stays None) and the number of accounts is unchanged.
C22_FundedKey == last.instruction.accounts[1]

C22_FundOfZeroLeavesStoreUnchanged ==
  (last.op = "fund" /\ last.status = "ok" /\ last.instruction.data = <<0>>)
    => /\ get_account(accounts, C22_FundedKey)
            = get_account(start.accounts, C22_FundedKey)
       /\ Cardinality(DOMAIN accounts) = Cardinality(DOMAIN start.accounts)

\* C23: over any sequence of execute and fund operations the set of keys of
\* the account store never shrinks, and a key that is absent when an
\* instruction references it is created with lamports = 0, empty data,
\* owner = System Program and executable = false before the handler runs.
C23_Default == [lamports |-> 0, data |-> 0, owner |-> SYSTEM_PROGRAM_ID,
                executable |-> FALSE, rent_epoch |-> 0]

\* the last instruction got as far as looking up all its accounts
C23_AccountsLookedUp ==
  /\ last.op = "instruction"
  /\ pre.context.compute_units_remaining >= 1000
  /\ LastInstr.program_id_index < Len(tx.account_keys)
  /\ LastIndicesInRange

\* what the handler was given for a key that was absent shows in the store:
\* as it is when the handler fails, and with the lamports received on top
\* when a Transfer to the key succeeds
C23_CreatedWithDefaults ==
  C23_AccountsLookedUp
    => \A k \in LastKeys :
         /\ k \in DOMAIN accounts
         /\ (k \notin DOMAIN pre.accounts /\ last.status # "ok")
              => accounts[k] = C23_Default
         /\ (/\ k \notin DOMAIN pre.accounts
             /\ last.status = "ok"
             /\ LastProgramIsSystem
             /\ LastDecoded.kind = "Transfer"
             /\ k = LastKey(2)
             /\ k # LastKey(1))
              => accounts[k] = [C23_Default EXCEPT !.lamports = LastDecoded.lamports]

C23_KeysNeverShrinkAndCreatedWithDefaults ==
  /\ []C23_CreatedWithDefaults
  /\ [][DOMAIN accounts \subseteq DOMAIN accounts']_vars

\* a handler failed on an account the instruction had just created
C23_Witness ==
  /\ C23_AccountsLookedUp
  /\ last.status = "err"
  /\ last.error = "InsufficientFunds"
  /\ \E k \in LastKeys : k \notin DOMAIN pre.accounts /\ accounts[k] = C23_Default
  /\ Cardinality(DOMAIN accounts) > Cardinality(DOMAIN start.accounts)

\* C24: within a transaction, once an account has executable = true no
\* instruction sets it back to false, a CreateAccount naming an executable
\* account as its new account and an instruction dispatched to the VM
\* included.
C24_ExecutableNeverCleared ==
  last.op = "instruction"
    => \A k \in DOMAIN pre.accounts :
         pre.accounts[k].executable => accounts[k].executable

\* C25: a program is loaded exactly when an earlier load_program call for its id
\* succeeded: the cache starts empty, each call adds the id it loaded successfully and
\* nothing else, no call removes an id, and a load_program call that fails leaves the
\* program cache as it was.
C25_FailedLoadLeavesCache ==
  (last.op = "load_program" /\ last.status = "err") => programs = pre.programs

C25_LoadedIffLoadSucceeded ==
  /\ \A program_id \in Pubkeys : ~is_program_loaded(programs, program_id)
  /\ []C25_FailedLoadLeavesCache
  /\ [][\A program_id \in Pubkeys :
          is_program_loaded(programs', program_id)
            <=> \/ is_program_loaded(programs, program_id)
                \/ /\ last'.op = "load_program"
                   /\ last'.status = "ok"
                   /\ last'.instruction.accounts = <<program_id>>]_vars

\* a load with bad bytecode fails for an id whose earlier load succeeded
C25_Witness ==
  /\ last.op = "load_program"
  /\ last.status = "err"
  /\ is_program_loaded(programs, last.instruction.accounts[1])
  /\ prev.last.op = "load_program"
  /\ prev.last.status = "ok"

\* C26: the System Program selects the instruction by the first byte of the data
\* with the tags 0 CreateAccount, 1 Assign, 2 Transfer, 3 CreateAccountWithSeed,
\* 8 Allocate, 9 AllocateWithSeed, 10 AssignWithSeed, 11 TransferWithSeed: data of
\* byte 8 followed by a u64 space is executed as Allocate (it succeeds on a
\* System-owned account and leaves it with `space` bytes of data), and data tagged
\* 4..7 is accepted as no instruction (it fails and changes no account).
C26_SystemOwnedTarget ==
  /\ Len(LastInstr.accounts) >= 1
  /\ LastKey(1) \in DOMAIN pre.accounts => pre.accounts[LastKey(1)].owner = SYSTEM_PROGRAM_ID

C26_TagTable ==
  (/\ LastProgramIsSystem
   /\ LastIndicesInRange
   /\ pre.context.compute_units_remaining >= 1000
   /\ Len(LastInstr.data) > 0)
    => /\ (Len(LastInstr.data) = 2 /\ LastInstr.data[1] = 8 /\ C26_SystemOwnedTarget)
            => /\ last.status = "ok"
               /\ accounts[LastKey(1)].data = LastInstr.data[2]
       /\ LastInstr.data[1] \in 4..7
            => /\ last.status = "err"
               /\ accounts = pre.accounts

\* C27: each seeded System instruction has the same effect on the accounts and the
\* same outcome (success or the same error) as its seedless counterpart given the
\* same accounts and parameters: CreateAccountWithSeed as CreateAccount,
\* AllocateWithSeed as Allocate, AssignWithSeed as Assign, TransferWithSeed as
\* Transfer.
C27_SeedlessData ==
  IF LastDecoded.kind = "CreateAccountWithSeed"
    THEN <<0, LastDecoded.lamports, LastDecoded.space, LastDecoded.owner>>
  ELSE IF LastDecoded.kind = "AllocateWithSeed" THEN <<4, LastDecoded.space>>
  ELSE IF LastDecoded.kind = "AssignWithSeed" THEN <<1, LastDecoded.owner>>
  ELSE <<2, LastDecoded.lamports>>

C27_Seedless ==
  process_one(pre.accounts, pre.programs, pre.context, tx.account_keys,
              CompiledInstruction(LastInstr.program_id_index, LastInstr.accounts,
                                  C27_SeedlessData))

C27_SeededActsAsSeedless ==
  (/\ LastProgramIsSystem
   /\ LastIndicesInRange
   /\ pre.context.compute_units_remaining >= 1000
   /\ LastDecoded.kind \in {"CreateAccountWithSeed", "AllocateWithSeed",
                            "AssignWithSeed", "TransferWithSeed"})
    => /\ last.status = C27_Seedless.status
       /\ last.error = C27_Seedless.error
       /\ accounts = C27_Seedless.accounts

\* C28: an Allocate or CreateAccount whose space exceeds 10 MiB fails with
\* InvalidRequest and leaves the target account's data, owner and lamports
\* unchanged; no account in the store ever holds more than 10 MiB of data.
C28_SpaceLimited ==
  /\ \A k \in DOMAIN accounts : accounts[k].data <= 10 * 1024 * 1024
  /\ (/\ HandlerReached({"Allocate", "CreateAccount"}, 1)
      /\ LastDecoded.space > 10 * 1024 * 1024)
       => /\ last.status = "err"
          /\ last.error = "InvalidRequest"
          /\ accounts = pre.accounts

\* C29: after a successful Allocate(space) on a System-owned account the account's
\* data is `space` zero bytes whatever it held before (the model keeps the data,
\* which the program only ever fills with zeros, as its length), so a second
\* Allocate replaces the data of the first, and the account's lamports and owner
\* are the ones it had before the Allocate.
C29_Before ==
  IF LastKey(1) \in DOMAIN pre.accounts
  THEN pre.accounts[LastKey(1)]
  ELSE Account_new(0, 0, SYSTEM_PROGRAM_ID)

C29_AllocateReplacesData ==
  (HandlerReached({"Allocate"}, 1) /\ last.status = "ok")
    => /\ C29_Before.owner = SYSTEM_PROGRAM_ID
       /\ accounts[LastKey(1)].data = LastDecoded.space
       /\ accounts[LastKey(1)].lamports = C29_Before.lamports
       /\ accounts[LastKey(1)].owner = C29_Before.owner

\* Allocate 64 succeeds on an account that an earlier Allocate left with 128 bytes
C29_Witness ==
  /\ HandlerReached({"Allocate"}, 1)
  /\ last.status = "ok"
  /\ LastDecoded.space = 64
  /\ C29_Before.data = 128
  /\ accounts[LastKey(1)].data = 64

\* C30: when, after the 1000-unit overhead has been charged, the compute units
\* remaining are fewer than the cost of the handler of an instruction that would
\* otherwise succeed (200 for a Transfer, 500 for an Assign, 1000 for a
\* CreateAccount), the instruction is cancelled: the store is left as it was and
\* the transaction ends with the compute-budget error instead of succeeding.
C30_HandlerCost ==
  IF LastDecoded.kind = "Transfer" THEN 200
  ELSE IF LastDecoded.kind = "Assign" THEN 500
  ELSE 1000

\* the same instruction on the same store succeeds when the whole budget is there
C30_SucceedsWithFullBudget ==
  process_one(pre.accounts, pre.programs, ExecutionContext_new(compute_budget),
              tx.account_keys, LastInstr).status = "ok"

C30_UncoveredHandlerCostCancels ==
  (/\ HandlerReached({"Transfer", "Assign", "CreateAccount"}, 0)
   /\ C30_SucceedsWithFullBudget
   /\ pre.context.compute_units_remaining - 1000 < C30_HandlerCost)
    => /\ last.status = "err"
       /\ last.error = C10_BudgetExceededError
       /\ accounts = pre.accounts

\* C31: a successful System instruction is charged, on top of the 1000-unit
\* overhead, exactly 1000 for CreateAccount, 500 for Assign, 200 for Transfer and
\* max(200, space / 100) for Allocate, so that an Allocate of fewer than 20000
\* bytes is charged 200.
C31_Cost ==
  IF LastDecoded.kind = "CreateAccount" THEN 1000
  ELSE IF LastDecoded.kind = "Assign" THEN 500
  ELSE IF LastDecoded.kind = "Transfer" THEN 200
  ELSE IF LastDecoded.space \div 100 > 200 THEN LastDecoded.space \div 100
  ELSE 200

C31_SuccessChargedItsCost ==
  (/\ HandlerReached({"CreateAccount", "Assign", "Transfer", "Allocate"}, 0)
   /\ last.status = "ok")
    => pre.context.compute_units_remaining - context.compute_units_remaining
         = 1000 + C31_Cost

\* C32: when an instruction lists the same key at several positions, the handler
\* works on one independent copy per position (what it does to one slot does not
\* show in the other), and after a successful handler the store holds for every
\* key of the instruction the slot at the last position naming it; the other keys
\* of the store are untouched.
C32_Scratch ==
  process_instruction(
    LastInstr.data, tx.account_keys,
    CopyOut(EnsureAccounts(pre.accounts, tx.account_keys, LastInstr.accounts, 1).accounts,
            tx.account_keys, LastInstr.accounts),
    consume_compute_units(pre.context, 1000).context).account_infos

C32_LastPosition(key) ==
  CHOOSE i \in 1..Len(LastInstr.accounts) :
    /\ LastKey(i) = key
    /\ \A j \in (i + 1)..Len(LastInstr.accounts) : LastKey(j) # key

C32_LastWriteWins ==
  (/\ LastProgramIsSystem
   /\ LastIndicesInRange
   /\ last.status = "ok")
    => /\ DOMAIN accounts = DOMAIN pre.accounts \cup LastKeys
       /\ \A key \in LastKeys : accounts[key] = C32_Scratch[C32_LastPosition(key)]
       /\ \A key \in DOMAIN pre.accounts \ LastKeys : accounts[key] = pre.accounts[key]

\* a Transfer of 2 lamports from the test account to itself: the debit is made on
\* slot 1, the credit on slot 2, and the store keeps slot 2
C32_Witness ==
  /\ LastProgramIsSystem
  /\ LastIndicesInRange
  /\ last.status = "ok"
  /\ LastDecoded.kind = "Transfer"
  /\ LastDecoded.lamports = 2
  /\ Len(LastInstr.accounts) = 2
  /\ LastKey(1) = LastKey(2)
  /\ C32_Scratch[1].lamports = pre.accounts[LastKey(1)].lamports - 2
  /\ C32_Scratch[2].lamports = pre.accounts[LastKey(1)].lamports + 2
  /\ accounts[LastKey(1)].lamports = pre.accounts[LastKey(1)].lamports + 2

\* C33: each transaction starts with a fresh ExecutionContext holding the whole
\* compute budget of 1,400,000 and an empty log, whatever the transactions before
\* it on the same runtime consumed or logged and however they ended.
C33_TransactionStarted ==
  /\ pc = "exec"
  /\ last.op = "none"

C33_TransactionStartsWithFreshContext ==
  C33_TransactionStarted
    => /\ context.compute_units_remaining = 1400000
       /\ context.compute_units_remaining = compute_budget
       /\ context.log_messages = <<>>

\* a transaction starts on a runtime whose earlier transaction ran a program
\* instruction, which is charged and logged
C33_Witness ==
  /\ C33_TransactionStarted
  /\ ops > 0
  /\ \E program_id \in Pubkeys : is_program_loaded(programs, program_id)
  /\ context.log_messages = <<>>

\* C34: execute_program for a loaded program returns 10 units per byte of
\* instruction data and hands every account back as it was given; for a program
\* that is not loaded it fails with a program error; so an instruction that the
\* runtime dispatches to a program other than the System Program changes no field
\* of any account already in the store.
C34_ExecuteIsPure ==
  last.op = "execute_program"
    => /\ accounts = pre.accounts
       /\ programs = pre.programs
       /\ IF is_program_loaded(pre.programs, last.instruction.accounts[1])
          THEN /\ last.status = "ok"
               /\ result.tag = "Ok"
               /\ result.value = 10 * Len(last.instruction.data)
          ELSE /\ last.status = "err"
               /\ result.tag = "Err"
               /\ result.error = "ProgramError: Program not loaded"

C34_ProgramInstruction ==
  /\ last.op = "instruction"
  /\ LastInstr.program_id_index < Len(tx.account_keys)
  /\ tx.account_keys[LastInstr.program_id_index + 1] # SYSTEM_PROGRAM_ID

C34_ProgramsLeaveAccountsAlone ==
  /\ C34_ExecuteIsPure
  /\ C34_ProgramInstruction
       => \A key \in DOMAIN pre.accounts : accounts[key] = pre.accounts[key]

\* the VM ran a loaded program on two accounts of its caller
C34_Witness ==
  /\ last.op = "execute_program"
  /\ last.status = "ok"
  /\ Len(last.instruction.data) = 3
  /\ result.value = 30
  /\ prev.last.op = "load_program"
  /\ accounts = pre.accounts

\* C35: no operation makes a lamport balance wrap around modulo 2^64: a Transfer
\* that would take its recipient past 2^64 - 1 and a fund_account that would take
\* the account past 2^64 - 1 do not leave that account with a smaller balance than
\* it had before the operation.
C35_BalanceBefore(key) ==
  IF key \in DOMAIN pre.accounts THEN pre.accounts[key].lamports ELSE 0

C35_NoWrapAround ==
  /\ (/\ HandlerReached({"Transfer"}, 2)
      /\ LastKey(1) # LastKey(2))
       => accounts[LastKey(2)].lamports >= C35_BalanceBefore(LastKey(2))
  /\ last.op = "fund"
       => \A key \in DOMAIN accounts : accounts[key].lamports >= C35_BalanceBefore(key)

\* C36: a System instruction rejected because its data decodes to no known
\* instruction, or because it lists fewer accounts than the instruction requires
\* (2 for Transfer and CreateAccount, 1 for Assign and Allocate), returns an error
\* without panicking and changes no field of any account that was already in the
\* store.
C36_Required ==
  IF LastDecoded.kind \in {"Transfer", "CreateAccount"} THEN 2 ELSE 1

C36_Rejectable ==
  /\ LastProgramIsSystem
  /\ LastIndicesInRange
  /\ pre.context.compute_units_remaining >= 1000
  /\ \/ LastDecoded.kind = "Invalid"
     \/ /\ LastDecoded.kind \in {"Transfer", "CreateAccount", "Assign", "Allocate"}
        /\ Len(LastInstr.accounts) < C36_Required

C36_RejectedInstructionChangesNoAccount ==
  C36_Rejectable
    => /\ last.status = "err"
       /\ \A key \in DOMAIN pre.accounts : accounts[key] = pre.accounts[key]

\* a Transfer listing one account is refused
C36_Witness ==
  /\ C36_Rejectable
  /\ LastDecoded.kind = "Transfer"
  /\ Len(LastInstr.accounts) = 1
  /\ last.error = "TransactionExecutionFailed: Transfer requires 2 accounts"

\* C37: all account indices of an instruction are checked before any account is
\* created for it: an instruction rejected for an account index past the end of
\* the account keys leaves the account store, key set included, exactly as it was
\* before that instruction, even when in-range indices naming absent keys come
\* before the bad index.
C37_BadAccountIndex ==
  /\ last.op = "instruction"
  /\ LastInstr.program_id_index < Len(tx.account_keys)
  /\ pre.context.compute_units_remaining >= 1000
  /\ ~LastIndicesInRange

C37_IndicesCheckedBeforeAnyCreation ==
  C37_BadAccountIndex
    => /\ last.status = "err"
       /\ last.error = "TransactionExecutionFailed: Invalid account index"
       /\ DOMAIN accounts = DOMAIN pre.accounts
       /\ \A key \in DOMAIN pre.accounts : accounts[key] = pre.accounts[key]

====
